---- MODULE Spec2Model ----
(***************************************************************************)
(* Automated Mod Validation (AMV): the server lifecycle of                 *)
(* PterodactylManager (src/src/pterodactyl/pterodactyl.py) against a       *)
(* shared hosting panel and a version feed.                                *)
(*                                                                         *)
(* Strings are sequences of characters (or of short chunks where only      *)
(* equality matters), so that startswith, split, lower and str are         *)
(* computed rather than assumed.  Python's None and the other falsy        *)
(* values of a field are one value here (NoId, NoName, NoIdentifier): the  *)
(* code only ever tests these fields for truthiness before using them.     *)
(***************************************************************************)
EXTENDS Integers, Sequences, FiniteSets, TLC

\* ------------------------------------------------------------------ bounds
\* The panel hands out ids 1..MaxServers and then accepts no more servers.
MaxServers == 3
\* Entries per page of the panel's paged server list.
PageSize == 2
\* status queries that may wait for the event loop at one time
MaxQueries == 1
\* shutdown signals that arrive in one run of the process
MaxSignals == 2
\* polls of the status endpoint a loop without a bound of its own is followed for
MaxPolls == 7

\* --------------------------------------------------------------- constants
\* max_retries of AMVEngine.cleanup, of Bot.check_status and of Bot.checkStatus
max_retries == 3
check_status_max_retries == 30
checkStatus_max_retries == 5
NoId == 0
NoName == <<>>
NoIdentifier == <<>>

\* "AMV:" as characters: the literal of the two startswith tests.
Prefix == <<"A", "M", "V", ":">>

\* The server_name the engine constructs the manager with.
ConfiguredServerName == <<"Testing">>

\* ------------------------------------------------------- string functions
\* str.startswith
StartsWith(s, p) == Len(s) >= Len(p) /\ SubSeq(s, 1, Len(p)) = p

\* str() of a non-negative integer: its decimal digits.
RECURSIVE Str(_)
Str(n) == IF n < 10 THEN <<n>> ELSE Str(n \div 10) \o <<n % 10>>

\* Python truthiness of an id, a name, an identifier.
TruthyId(i) == i # NoId
TruthyName(s) == s # NoName

\* str.lower on the loader tags that occur.
Lower(s) ==
    CASE s = "Fabric" -> "fabric"
      [] s = "Forge" -> "forge"
      [] s = "Quilt" -> "quilt"
      [] OTHER -> s

\* ------------------------------------------------------------ remote calls
\* One remote call as the manager issues it: which call, on which server (0
\* when it names none), and whether it returned.
Call(call, arg, ok) == [call |-> call, arg |-> arg, ok |-> ok]

\* Faulty variant: a call that failed is issued a second time.
CallRetried(call, arg, ok) ==
    IF ok THEN <<Call(call, arg, ok)>>
    ELSE <<Call(call, arg, ok), Call(call, arg, ok)>>

\* Every call site of the manager issues its call once, inside a try block
\* whose handler logs the error and goes on or returns; no call site sits in a
\* loop that would issue it again.
CallOnce(call, arg, ok) == <<Call(call, arg, ok)>>

\* The HTTP errors a failing call of one operation fails with ("none" when no
\* call of the operation failed).  No handler of the manager tells them apart
\* but for the wording of a log line.
ErrorKinds == {"404", "503"}

\* Faulty variant: a handler that lets the error through.
CatchesNothing(error) == FALSE

\* "except Exception" around the body of a lifecycle method: every error a
\* remote call raises is an Exception.
Catches(error) == TRUE

\* The exception that leaves a method whose body met this error.
Propagated(error) ==
    IF error # "none" /\ ~Catches(error) THEN error ELSE "none"

\* ------------------------------------------------------------ version feed
\* Outcome of a call that either raises or returns a value.
Raised == [ok |-> FALSE]
Returned(v) == [ok |-> TRUE, value |-> v]

DigitChars == <<"0", "1", "2", "3", "4", "5", "6", "7", "8", "9">>
IsDigit(c) == \E k \in 1..Len(DigitChars) : DigitChars[k] = c
DigitVal(c) == (CHOOSE k \in 1..Len(DigitChars) : DigitChars[k] = c) - 1

\* v.split('.')
RECURSIVE SplitDot(_)
SplitDot(s) ==
    IF \A k \in 1..Len(s) : s[k] # "."
    THEN <<s>>
    ELSE LET k == CHOOSE j \in 1..Len(s) :
                      s[j] = "." /\ \A h \in 1..(j - 1) : s[h] # "."
         IN  <<SubSeq(s, 1, k - 1)>> \o SplitDot(SubSeq(s, k + 1, Len(s)))

\* int(x) succeeds on a non-empty run of digits (the alphabet of the feeds here
\* holds no sign, blank or underscore).
IsNumeric(c) == Len(c) > 0 /\ \A k \in 1..Len(c) : IsDigit(c[k])
RECURSIVE IntOf(_)
IntOf(c) ==
    IF Len(c) = 1 THEN DigitVal(c[1])
    ELSE 10 * IntOf(SubSeq(c, 1, Len(c) - 1)) + DigitVal(c[Len(c)])

\* Faulty variant: the characters of the string as the key, so that "1.9"
\* sorts after "1.10".
SortKeyText(v) == [k \in 1..Len(v) |-> IF v[k] = "." THEN 0 ELSE DigitVal(v[k]) + 2]

\* The sort key [int(x) for x in v.split('.')]; KeyRaises when an int() raises.
KeyRaises(v) == \E k \in 1..Len(SplitDot(v)) : ~IsNumeric(SplitDot(v)[k])
SortKey(v) == [k \in 1..Len(SplitDot(v)) |-> IntOf(SplitDot(v)[k])]

\* Python's list order: lexicographic, a proper prefix is smaller.
RECURSIVE ListLess(_, _)
ListLess(a, b) ==
    IF Len(b) = 0 THEN FALSE
    ELSE IF Len(a) = 0 THEN TRUE
    ELSE IF a[1] # b[1] THEN a[1] < b[1]
    ELSE ListLess(Tail(a), Tail(b))

\* sorted(keys, key=SortKey, reverse=True): descending and stable, so among
\* equal keys the earlier element stays first.
RECURSIVE SortKeysReverse(_)
SortKeysReverse(seq) ==
    IF seq = <<>> THEN <<>>
    ELSE LET k == CHOOSE j \in 1..Len(seq) :
                      /\ \A h \in 1..Len(seq) :
                             ~ListLess(SortKey(seq[j]), SortKey(seq[h]))
                      /\ \A h \in 1..(j - 1) :
                             ListLess(SortKey(seq[h]), SortKey(seq[j]))
             rest == [h \in 1..(Len(seq) - 1) |->
                          IF h < k THEN seq[h] ELSE seq[h + 1]]
         IN  <<seq[k]>> \o SortKeysReverse(rest)

\* Faulty variant: the last entry among those with the latest publish date.
NewestLast(seq) ==
    seq[CHOOSE j \in 1..Len(seq) :
            /\ \A h \in 1..Len(seq) : seq[h].date_published <= seq[j].date_published
            /\ \A h \in (j + 1)..Len(seq) :
                   seq[h].date_published < seq[j].date_published]

\* sorted(loader_versions, key=date_published, reverse=True)[0]: the earliest
\* entry among those with the latest publish date.
NewestFirst(seq) ==
    seq[CHOOSE j \in 1..Len(seq) :
            /\ \A h \in 1..Len(seq) : seq[h].date_published <= seq[j].date_published
            /\ \A h \in 1..(j - 1) : seq[h].date_published < seq[j].date_published]

\* mc_versions.keys(): the game versions of the feed in order of first insertion.
RECURSIVE AllGameVersions(_)
AllGameVersions(versions) ==
    IF versions = <<>> THEN <<>>
    ELSE versions[1].game_versions \o AllGameVersions(Tail(versions))

RECURSIVE Dedup(_)
Dedup(seq) ==
    IF seq = <<>> THEN <<>>
    ELSE LET front == Dedup(SubSeq(seq, 1, Len(seq) - 1))
             x == seq[Len(seq)]
         IN  IF \E k \in 1..Len(front) : front[k] = x THEN front
             ELSE Append(front, x)

McKeys(versions) == Dedup(AllGameVersions(versions))

InSeq(x, seq) == \E k \in 1..Len(seq) : seq[k] = x

\* mc_versions[mc].get(loader, []): the versions filed under a game version and
\* a lower-cased loader tag, in feed order.  (A version naming the tag twice is
\* filed twice; the entry chosen below is the same.)
LoaderVersions(versions, mc, loader) ==
    SelectSeq(versions, LAMBDA v :
        /\ InSeq(mc, v.game_versions)
        /\ \E k \in 1..Len(v.loaders) : Lower(v.loaders[k]) = loader)

SortedMcVersions(versions) == SortKeysReverse(McKeys(versions))

\* The nested search loop of _getLatestVersionInfo: game versions newest first,
\* preferred loaders in the caller's order, first non-empty list wins and its
\* most recently published entry is returned.
RECURSIVE SearchLoaders(_, _, _, _)
SearchLoaders(versions, mc, preferred, i) ==
    IF i > Len(preferred) THEN Raised
    ELSE LET loader_versions == LoaderVersions(versions, mc, preferred[i])
         IN  IF loader_versions # <<>>
             THEN Returned(NewestFirst(loader_versions))
             ELSE SearchLoaders(versions, mc, preferred, i + 1)

\* Faulty variant: the preferred loaders outermost, the game versions inside.
RECURSIVE SearchVersionsFor(_, _, _, _)
SearchVersionsFor(versions, sorted, loader, j) ==
    IF j > Len(sorted) THEN Raised
    ELSE LET loader_versions == LoaderVersions(versions, sorted[j], loader)
         IN  IF loader_versions # <<>>
             THEN Returned(NewestFirst(loader_versions))
             ELSE SearchVersionsFor(versions, sorted, loader, j + 1)

RECURSIVE SearchByLoader(_, _, _, _)
SearchByLoader(versions, sorted, preferred, i) ==
    IF i > Len(preferred) THEN Raised
    ELSE LET hit == SearchVersionsFor(versions, sorted, preferred[i], 1)
         IN  IF hit.ok THEN hit
             ELSE SearchByLoader(versions, sorted, preferred, i + 1)

SearchMcVersionsByLoader(versions, sorted, preferred, j) ==
    SearchByLoader(versions, sorted, preferred, 1)

RECURSIVE SearchMcVersions(_, _, _, _)
SearchMcVersions(versions, sorted, preferred, j) ==
    IF j > Len(sorted) THEN Raised
    ELSE LET hit == SearchLoaders(versions, sorted[j], preferred, 1)
         IN  IF hit.ok THEN hit
             ELSE SearchMcVersions(versions, sorted, preferred, j + 1)

\* Faulty variant: game versions that are no dotted numbers are left out of
\* the sort instead of failing it.
GetLatestVersionInfoSkipsUnparsed(fetch, preferred_loaders) ==
    IF ~fetch.ok THEN Raised
    ELSE IF fetch.value = <<>> THEN Raised
    ELSE SearchMcVersions(fetch.value,
                          SortKeysReverse(SelectSeq(McKeys(fetch.value),
                                                    LAMBDA v : ~KeyRaises(v))),
                          preferred_loaders, 1)

\* Faulty variant: when no version offers a preferred loader, the first
\* version of the feed is returned instead of raising.
GetLatestVersionInfoAnyLoader(fetch, preferred_loaders) ==
    IF ~fetch.ok THEN Raised
    ELSE IF fetch.value = <<>> THEN Raised
    ELSE IF \E k \in 1..Len(McKeys(fetch.value)) : KeyRaises(McKeys(fetch.value)[k])
    THEN Raised
    ELSE LET hit == SearchMcVersions(fetch.value, SortedMcVersions(fetch.value),
                                     preferred_loaders, 1)
         IN  IF hit.ok THEN hit ELSE Returned(fetch.value[1])

\* PterodactylManager._getLatestVersionInfo.  fetch is Raised (the HTTP request
\* failed) or Returned(the feed's version list).
GetLatestVersionInfo(fetch, preferred_loaders) ==
    IF ~fetch.ok THEN Raised
    ELSE IF fetch.value = <<>> THEN Raised
    ELSE IF \E k \in 1..Len(McKeys(fetch.value)) : KeyRaises(McKeys(fetch.value)[k])
    THEN Raised
    ELSE SearchMcVersions(fetch.value, SortedMcVersions(fetch.value),
                          preferred_loaders, 1)

\* ------------------------------------------ ModVersionManager (mod_manager.py)
\* Faulty variant: the loader tags are filed as the feed spells them.
VersionsForLoaderCased(versions, mc_version, loader) ==
    SelectSeq(versions, LAMBDA version :
        /\ InSeq(mc_version, version.game_versions)
        /\ InSeq(loader, version.loaders))

\* mc_versions[mc_version][loader] of lines 60-69, empty when the loader is no
\* key of mc_versions[mc_version] (the test of line 89).
VersionsForLoader(versions, mc_version, loader) ==
    SelectSeq(versions, LAMBDA version :
        /\ InSeq(mc_version, version.game_versions)
        /\ InSeq(loader, [k \in 1..Len(version.loaders) |->
                             Lower(version.loaders[k])]))

\* Lines 86-111: `for mc_version in sorted_mc_versions`, `for loader in
\* preferred_loaders`, the most recently published entry of the first list
\* that is not empty.
RECURSIVE TryLoaders(_, _, _, _)
TryLoaders(versions, mc_version, preferred_loaders, i) ==
    IF i > Len(preferred_loaders) THEN Raised
    ELSE LET versions_for_loader ==
                 VersionsForLoader(versions, mc_version, preferred_loaders[i])
         IN  IF versions_for_loader # <<>>
             THEN Returned(NewestFirst(versions_for_loader))
             ELSE TryLoaders(versions, mc_version, preferred_loaders, i + 1)

RECURSIVE TryMcVersions(_, _, _, _)
TryMcVersions(versions, sorted_mc_versions, preferred_loaders, j) ==
    IF j > Len(sorted_mc_versions) THEN Raised
    ELSE LET selected_version ==
                 TryLoaders(versions, sorted_mc_versions[j], preferred_loaders, 1)
         IN  IF selected_version.ok THEN selected_version
             ELSE TryMcVersions(versions, sorted_mc_versions, preferred_loaders,
                                j + 1)

\* ModVersionManager.get_latest_version.  fetch is Raised (the httpx request or
\* raise_for_status failed) or Returned(the feed's version list); every
\* exception is logged and raised again (lines 120-139).
get_latest_version(fetch, preferred_loaders) ==
    IF ~fetch.ok THEN Raised
    ELSE IF fetch.value = <<>> THEN Raised
    ELSE IF \E k \in 1..Len(McKeys(fetch.value)) : KeyRaises(McKeys(fetch.value)[k])
    THEN Raised
    ELSE TryMcVersions(fetch.value, SortKeysReverse(McKeys(fetch.value)),
                       preferred_loaders, 1)

\* ------------------------------------------------- the feeds of this model
V(id, name, loaders, game_versions, date_published) ==
    [id |-> id, name |-> name, loaders |-> loaders,
     game_versions |-> game_versions, date_published |-> date_published]

Mc120 == <<"1", ".", "2", "0">>
Mc121 == <<"1", ".", "2", "1">>

VOld == V("vOld", <<"v1">>, <<"fabric">>, <<Mc120>>, 1)
VNew == V("vNew", <<"v2">>, <<"fabric">>, <<Mc121>>, 2)
VForge == V("vForge", <<"v3">>, <<"forge">>, <<Mc121>>, 3)
VNoGame == V("vNoGame", <<"v1">>, <<"fabric">>, <<>>, 1)

\* What the version feed may hold when a create call asks it.
Feeds == {<<>>, <<VOld>>, <<VNew, VOld>>, <<VForge, VNoGame>>}

NoTarget == "None"
TargetIds == {NoTarget, "vOld", "vForge", "vNoGame", "vGone"}
PreferredLists == {<<"fabric">>}

\* The feeds the resolver is checked on: releases for 1.9, 1.10 and 1.11, a
\* release candidate (a game version that is no dotted number), a version
\* without game versions, loader tags in either case.
Mc19 == <<"1", ".", "9">>
Mc110 == <<"1", ".", "1", "0">>
Mc111 == <<"1", ".", "1", "1">>
Mc111rc == <<"1", ".", "1", "1", "-", "r", "c", "1">>

FeedVersions ==
    { V("a", <<"a">>, <<"fabric">>, <<Mc19>>, 1),
      V("b", <<"b">>, <<"fabric">>, <<Mc110>>, 2),
      V("c", <<"c">>, <<"forge">>, <<Mc110>>, 3),
      V("d", <<"d">>, <<"Fabric", "forge">>, <<Mc19, Mc110>>, 3),
      V("e", <<"e">>, <<"fabric">>, <<Mc111rc>>, 4),
      V("f", <<"f">>, <<"fabric">>, <<>>, 5),
      V("g", <<"g">>, <<"forge">>, <<Mc111>>, 5) }

ResolverFeeds ==
    {<<>>} \cup {<<v>> : v \in FeedVersions}
           \cup {f \in {<<v, w>> : v \in FeedVersions, w \in FeedVersions} :
                     f[1] # f[2]}

ResolverFetches == {Raised} \cup {Returned(f) : f \in ResolverFeeds}
ResolverTargetIds == {NoTarget, "a", "c", "d", "e", "f", "gone"}
ResolverPreferred ==
    {<<>>, <<"fabric">>, <<"forge">>, <<"forge", "fabric">>, <<"fabric", "forge">>}

\* requests.get(.../version/{id}); raise_for_status(); response.json()
FetchVersion(fetch, target_version_id) ==
    IF ~fetch.ok THEN Raised
    ELSE IF \E k \in 1..Len(fetch.value) : fetch.value[k].id = target_version_id
    THEN Returned(fetch.value[CHOOSE k \in 1..Len(fetch.value) :
                                  fetch.value[k].id = target_version_id])
    ELSE Raised

\* next((x for x in seq if P(x)), default), for the two uses in the manager.
RECURSIVE FirstPreferredIn(_, _, _)
FirstPreferredIn(preferred, version_loaders, i) ==
    IF i > Len(preferred) THEN "None"
    ELSE IF InSeq(preferred[i], version_loaders) THEN preferred[i]
    ELSE FirstPreferredIn(preferred, version_loaders, i + 1)

RECURSIVE FirstLoaderIn(_, _, _)
FirstLoaderIn(loaders, preferred, i) ==
    IF i > Len(loaders) THEN "unknown"
    ELSE IF InSeq(Lower(loaders[i]), preferred) THEN loaders[i]
    ELSE FirstLoaderIn(loaders, preferred, i + 1)

\* Faulty variant: the version asked for is used whatever loaders it offers.
ResolveTargetVersionUnchecked(fetch, target_version_id, preferred_loaders) ==
    IF target_version_id # NoTarget
    THEN FetchVersion(fetch, target_version_id)
    ELSE GetLatestVersionInfo(fetch, preferred_loaders)

\* Lines 204-230 of _create_server_instance: the version to create a server for.
ResolveTargetVersion(fetch, target_version_id, preferred_loaders) ==
    IF target_version_id # NoTarget
    THEN LET target_version == FetchVersion(fetch, target_version_id)
         IN  IF ~target_version.ok THEN Raised
             ELSE LET version_loaders ==
                          [k \in 1..Len(target_version.value.loaders) |->
                               Lower(target_version.value.loaders[k])]
                      compatible_loader ==
                          FirstPreferredIn(preferred_loaders, version_loaders, 1)
                  IN  IF compatible_loader = "None"
                      THEN GetLatestVersionInfo(fetch, preferred_loaders)
                      ELSE target_version
    ELSE GetLatestVersionInfo(fetch, preferred_loaders)

\* The HTTP requests of lines 204-230: the version by its id when one is
\* asked for, the feed when none is or when that version offers no preferred
\* loader.
ResolveRequests(fetch, target_version_id, preferred_loaders) ==
    IF target_version_id # NoTarget
    THEN LET target_version == FetchVersion(fetch, target_version_id)
         IN  CallOnce("get_version", 0, target_version.ok)
                 \o IF target_version.ok
                       /\ ResolveTargetVersion(fetch, target_version_id,
                                               preferred_loaders) # target_version
                    THEN CallOnce("get_versions", 0, fetch.ok)
                    ELSE <<>>
    ELSE CallOnce("get_versions", 0, fetch.ok)

\* loader_info, line 233 (an empty preferred list falls back to ['fabric']).
LoaderInfo(target_version, preferred_loaders) ==
    FirstLoaderIn(target_version.loaders,
                  IF preferred_loaders = <<>> THEN <<"fabric">> ELSE preferred_loaders,
                  1)

\* Faulty variant: the name without the prefix.
BuildNameBare(server_name, version_name, loader_info) ==
    server_name \o <<" - ">> \o version_name \o <<" (", loader_info, ")">>

\* f"AMV: {self.server_name} - {target_version['name']} ({loader_info})"
BuildName(server_name, version_name, loader_info) ==
    Prefix \o <<" ">> \o server_name \o <<" - ">> \o version_name
           \o <<" (", loader_info, ")">>

\* ---------------------------------------------------------------- the panel
Ids == 1..MaxServers

\* The opaque identifier the panel gives the server with this id.
IdentifierOf(id) == <<"s">> \o Str(id)

\* Names other users of the shared panel give their servers: one without the
\* prefix, one with it, and the name a second AMV instance of the same
\* configuration would use.
RenamedByAdmin == <<"r", "e", "n", "a", "m", "e", "d">>
OtherNames ==
    { RenamedByAdmin,
      Prefix \o <<" ", "other">>,
      BuildName(ConfiguredServerName, <<"v1">>, "fabric") }

VARIABLES
    panel,                 \* id -> display name of the live server, or NoName
    next_id,               \* the id the panel gives the next server
    user,                  \* self.user: TRUE when __init__ found or made one
    mod_file,              \* settings.MOD_FILE_PATH is configured
    server_id,             \* self.server_id
    server_identifier,     \* self.server_identifier
    current_server_name,   \* self.current_server_name
    mine,                  \* the live servers this manager's create calls made
    created_ok,            \* the create call that wrote the record returned True
    install_state,         \* the "status" the panel lists for the held server
    wait,                  \* the wait for the installation, if one is under way
    mods,                  \* the files in /mods of the server the record names
    loop,                  \* the event loop: what blocks it, what waits for it
    last,                  \* the last call on the manager and what it did
    amv,                   \* the AMVEngine: its manager and its bot
    globals,               \* run.py's globals: engine and _is_shutting_down
    tasks,                 \* the main task and the _cleanup tasks of the signals
    cleanup,               \* the engine.cleanup() call, if one was started
    notifier               \* the bot's status-polling loop

vars == <<panel, next_id, user, mod_file, server_id, server_identifier,
          current_server_name, mine, created_ok, install_state, wait, mods,
          loop, last, amv, globals, tasks, cleanup, notifier>>

\* The state of the shutdown, and what no call on the manager assigns.
shutdown_vars == <<amv, globals, tasks, cleanup>>
fixed_vars == <<user, mod_file, notifier, shutdown_vars>>

record == <<server_id, server_identifier, current_server_name>>

\* /mods of the server sid after a step: empty when no server is named, when
\* the server is gone from the panel or when it is another server than before
\* (a new server starts without the directory).
Directory(sid, p) ==
    IF sid = NoId \/ p[sid] = NoName \/ sid # server_id THEN {} ELSE mods
EmptyRecord == <<NoId, NoIdentifier, NoName>>

LiveIds(p) == {i \in Ids : p[i] # NoName}

RECURSIVE Ascending(_)
Ascending(S) ==
    IF S = {} THEN <<>>
    ELSE LET m == CHOOSE x \in S : \A y \in S : x <= y
         IN  <<m>> \o Ascending(S \ {m})

\* One list entry, {"attributes": {"id": ..., "name": ...}}.
Entry(p, i) == [id |-> i, name |-> p[i]]

\* client.servers.list_servers(): the live servers by id, PageSize to a page.
RECURSIVE Paged(_)
Paged(entries) ==
    IF Len(entries) <= PageSize
    THEN IF entries = <<>> THEN <<>> ELSE <<entries>>
    ELSE <<SubSeq(entries, 1, PageSize)>>
             \o Paged(SubSeq(entries, PageSize + 1, Len(entries)))

ListServers(p) ==
    LET ids == Ascending(LiveIds(p))
    IN  Paged([k \in 1..Len(ids) |-> Entry(p, ids[k])])

\* `not server_list`
Falsy(server_list) == server_list = <<>>

\* ------------------------------------------------------------- deleteServer
\* Lines 419-422: the entry is a deletion candidate.
IsCandidate(e, sid, cname) ==
    /\ TruthyId(e.id)
    /\ TruthyName(e.name)
    /\ \/ TruthyId(sid) /\ Str(e.id) = Str(sid)
       \/ e.name = cname /\ StartsWith(e.name, Prefix)

\* Faulty variant: the final verification lets every candidate through.
SafetyCheckAlwaysPasses(server_name) == TRUE

\* Line 432, the final verification before the delete call.
SafetyCheck(server_name) == StartsWith(server_name, Prefix)

NoScan == [calls |-> <<>>, refused |-> <<>>, found |-> FALSE]

\* Faulty variant: server_found is set before the delete call is known to have worked.
CallSucceedsIgnoresFailure(e, fail) == TRUE

\* Lines 436-438: server_found is set only after a delete call that did not
\* raise.  fail holds the ids whose delete call raises.
CallSucceeds(e, fail) == e.id \notin fail

\* The inner loop over one page (lines 409-441): a refused candidate is skipped
\* with `continue`; a candidate that passes gets the delete call and ends the
\* page with `break`, whether or not the call raised.
RECURSIVE ScanPage(_, _, _, _, _)
ScanPage(page, i, sid, cname, fail) ==
    IF i > Len(page) THEN NoScan
    ELSE IF ~IsCandidate(page[i], sid, cname)
    THEN ScanPage(page, i + 1, sid, cname, fail)
    ELSE IF ~SafetyCheck(page[i].name)
    THEN LET rest == ScanPage(page, i + 1, sid, cname, fail)
         IN  [rest EXCEPT !.refused = <<page[i]>> \o @]
    ELSE [calls |-> <<page[i]>>, refused |-> <<>>,
          found |-> CallSucceeds(page[i], fail)]

\* The outer loop over the pages (line 406): the `break` left only the page.
RECURSIVE ScanPages(_, _, _, _, _)
ScanPages(pages, j, sid, cname, fail) ==
    IF j > Len(pages) THEN NoScan
    ELSE LET here == ScanPage(pages[j], 1, sid, cname, fail)
             rest == ScanPages(pages, j + 1, sid, cname, fail)
         IN  [calls |-> here.calls \o rest.calls,
              refused |-> here.refused \o rest.refused,
              found |-> here.found \/ rest.found]

\* Faulty variant: the record is reset only when a server was deleted.
DeleteOutcomeKeepsRecord(scan) ==
    [result |-> scan.found, reset |-> scan.found, stage |-> "scanned",
     calls |-> scan.calls, refused |-> scan.refused]

\* Faulty variant: "nothing to delete" counts as success.
DeleteOutcomeAlwaysTrue(scan) ==
    [result |-> TRUE, reset |-> TRUE, stage |-> "scanned",
     calls |-> scan.calls, refused |-> scan.refused]

\* Lines 443-455, after the loops: the record is reset and server_found is
\* returned.
DeleteOutcome(scan) ==
    [result |-> scan.found, reset |-> TRUE, stage |-> "scanned",
     calls |-> scan.calls, refused |-> scan.refused]

\* PterodactylManager.deleteServer as a function of the held record, the
\* outcome of the list call and the delete calls that raise:
\* what it returns, the delete calls it issued, the candidates it refused, and
\* whether it reached the reset of the record (lines 449-451).
DeleteServerRun(sid, cname, listing, fail) ==
    IF ~listing.ok
    THEN [result |-> FALSE, reset |-> FALSE, stage |-> "list_raised",
          calls |-> <<>>, refused |-> <<>>]
    ELSE IF Falsy(listing.value)
    THEN [result |-> FALSE, reset |-> FALSE, stage |-> "no_servers",
          calls |-> <<>>, refused |-> <<>>]
    ELSE DeleteOutcome(ScanPages(listing.value, 1, sid, cname, fail))

\* The ids of a sequence of entries.
IdsOf(entries) == {entries[k].id : k \in 1..Len(entries)}

\* The remote calls of one deleteServer: the list call, then the delete calls
\* in the order of the scan.
RECURSIVE DeleteCalls(_, _)
DeleteCalls(calls, fail) ==
    IF calls = <<>> THEN <<>>
    ELSE CallOnce("delete_server", calls[1].id, calls[1].id \notin fail)
             \o DeleteCalls(Tail(calls), fail)

DeleteServerLog(listing, run, fail) ==
    CallOnce("list_servers", 0, listing.ok) \o DeleteCalls(run.calls, fail)

\* -------------------------------------------------------------- check_server
RECURSIVE Lists(_, _)
Lists(pages, sid) ==
    IF pages = <<>> THEN FALSE
    ELSE \/ \E k \in 1..Len(pages[1]) : Str(pages[1][k].id) = Str(sid)
         \/ Lists(Tail(pages), sid)

\* Faulty variant: only the first page of the list is searched.
CheckServerRunFirstPage(sid, listing) ==
    /\ TruthyId(sid)
    /\ listing.ok
    /\ ~Falsy(listing.value)
    /\ \E k \in 1..Len(listing.value[1]) : Str(listing.value[1][k].id) = Str(sid)

\* PterodactylManager.check_server
CheckServerRun(sid, listing) ==
    IF ~TruthyId(sid) THEN FALSE
    ELSE IF ~listing.ok THEN FALSE
    ELSE IF Falsy(listing.value) THEN FALSE
    ELSE Lists(listing.value, sid)

\* The remote calls of check_server and of get_status: the list call, unless
\* no id is held.
QueryLog(sid, listing) ==
    IF ~TruthyId(sid) THEN <<>> ELSE CallOnce("list_servers", 0, listing.ok)

\* --------------------------------------------------------------- get_status
\* Faulty variant: a server that is not found is forgotten.
GetStatusRunForgets(held, listing, state) ==
    LET found == CheckServerRun(held[1], listing)
    IN  [has_server |-> IF found THEN "true" ELSE "false",
         server_state |-> IF found THEN state ELSE "unknown",
         server_id |-> held[1], server_name |-> held[3],
         record |-> IF found THEN held ELSE EmptyRecord]

\* Faulty variant: a server that is found is taken to be running.
GetStatusRunAssumesRunning(held, listing, state) ==
    LET found == CheckServerRun(held[1], listing)
    IN  [has_server |-> IF found THEN "true" ELSE "false",
         server_state |-> IF found THEN "running" ELSE "unknown",
         server_id |-> held[1], server_name |-> held[3], record |-> held]

\* PterodactylManager.get_status: the status dict, and the record as the call
\* leaves it (it assigns to no field).  state is the "status" attribute of the
\* list entry with the held id.
GetStatusRun(held, listing, state) ==
    LET status == [has_server |-> "false", server_state |-> "unknown",
                   server_id |-> held[1], server_name |-> held[3],
                   record |-> held]
    IN  IF ~TruthyId(held[1]) THEN status
        ELSE IF ~listing.ok THEN status
        ELSE IF Falsy(listing.value) THEN status
        ELSE IF Lists(listing.value, held[1])
        THEN [status EXCEPT !.has_server = "true", !.server_state = state]
        ELSE status

\* ---------------------------------------------- wait_for_server_installation
\* The test suite awaits manager.wait_for_server_installation(timeout_seconds);
\* the method is modelled as the specification describes it: poll the status
\* every PollInterval seconds until it is terminal or the time is up.
TerminalSuccess == {"running", "ready", "installed"}
TerminalFailure == {"install_failed", "error", "failed"}
PollInterval == 5
Timeouts == {0, 5, 10}

\* One round of the polling loop on the status just read: return True on a
\* terminal success, False on a terminal failure or when the time is up, else
\* sleep for PollInterval.
WaitPoll(w, server_state) ==
    IF server_state \in TerminalSuccess
    THEN [w EXCEPT !.pc = "done", !.result = TRUE, !.seen = server_state]
    ELSE IF server_state \in TerminalFailure
    THEN [w EXCEPT !.pc = "done", !.result = FALSE, !.seen = server_state]
    ELSE IF w.elapsed >= w.timeout
    THEN [w EXCEPT !.pc = "done", !.result = FALSE, !.seen = server_state]
    ELSE [w EXCEPT !.elapsed = @ + PollInterval, !.seen = server_state]

\* ----------------------------------------------------------- upload_mod_file
\* os.path.basename(file_path): the stem and the extension of the file name.
ModFileName == <<"mod-1", ".jar">>
FileNames == {ModFileName, <<"mod-2", ".jar">>, <<"notes", ".txt">>}
NoFile == <<>>

\* What the environment does to one upload: the local file, the create-folder
\* call, the upload-URL call and the POST.
UploadFine == [file_exists |-> TRUE, folder |-> "created", url |-> "ok", post |-> "ok"]
UploadScenarios ==
    {UploadFine, [UploadFine EXCEPT !.file_exists = FALSE]}
      \cup {[UploadFine EXCEPT !.folder = f] : f \in {"exists_400", "http_error", "error"}}
      \cup {[UploadFine EXCEPT !.url = x] : x \in {"none", "raised"}}
      \cup {[UploadFine EXCEPT !.post = x] : x \in {"status_400_up", "raised"}}

\* The remote calls of upload_mod_file: create_folder, get_upload_file_url,
\* the POST to the upload URL and the list_files that looks for the file.
UploadLog(sid, sident, u) ==
    IF ~TruthyId(sid) \/ sident = NoIdentifier \/ ~u.file_exists THEN <<>>
    ELSE CallOnce("create_folder", sid, u.folder = "created")
         \o CallOnce("get_upload_file_url", sid, u.url # "raised")
         \o IF u.url # "ok" THEN <<>>
            ELSE CallOnce("post", sid, u.post = "ok")
                 \o IF u.post # "ok" THEN <<>>
                    ELSE CallOnce("list_files", sid, TRUE)

\* Faulty variant: no look at the record before the upload.
UploadModFileRunUnguarded(sid, sident, u) ==
    IF ~u.file_exists THEN FALSE
    ELSE IF u.url # "ok" THEN FALSE
    ELSE IF u.post # "ok" THEN FALSE
    ELSE TRUE

\* PterodactylManager.upload_mod_file: every failure of the folder call is
\* logged and passed over; the other failures return False.
UploadModFileRun(sid, sident, u) ==
    IF ~TruthyId(sid) \/ sident = NoIdentifier THEN FALSE
    ELSE IF ~u.file_exists THEN FALSE
    ELSE IF u.url # "ok" THEN FALSE
    ELSE IF u.post # "ok" THEN FALSE
    ELSE TRUE

\* -------------------------------------------------------------- create_server
\* The panel's answer to the create call: it raises (nothing is created), or
\* it creates the server and answers well-formed, without "attributes", or
\* without an identifier.
Responses == {"ok", "raised", "no_attributes", "no_identifier"}

\* The "attributes" of the create response, as get_attributes (lines 267-287)
\* extracts them; NoAttributes when there are none.
NoAttributes == [id |-> NoId, identifier |-> NoIdentifier]
Attributes(respond, new_id) ==
    CASE respond = "ok" -> [id |-> new_id, identifier |-> IdentifierOf(new_id)]
      [] respond = "no_identifier" -> [id |-> new_id, identifier |-> NoIdentifier]
      [] OTHER -> NoAttributes

\* Lines 290-294: both required fields are there.
AttributesComplete(attributes) ==
    TruthyId(attributes.id) /\ attributes.identifier # NoIdentifier

Fetches == {Raised} \cup {Returned(f) : f \in Feeds}

\* What lines 204-230 can come to for the feeds, target ids and preferred
\* loaders of this model: the resolved version (or Raised) with the preferred
\* loaders of the call.
Resolution(fetch, t, p) ==
    [target_version |-> ResolveTargetVersion(fetch, t, p), preferred_loaders |-> p,
     requests |-> ResolveRequests(fetch, t, p)]

Resolutions ==
    {Resolution(fetch, t, p) :
        fetch \in Fetches, t \in TargetIds, p \in PreferredLists}

\* environment_variables, lines 240-243: the first game version the selected
\* version lists, and loader_info.
NoEnvironment == [MINECRAFT_VERSION |-> <<>>, MOD_LOADER_TYPE |-> "none"]

EnvironmentVariables(target_version, loader_info) ==
    [MINECRAFT_VERSION |-> target_version.game_versions[1],
     MOD_LOADER_TYPE |-> loader_info]

\* Faulty variant: the exception handler of lines 305-310 leaves the name
\* assigned at line 234 in place.
CreateInstanceRunKeepsName(has_user, held, res, respond, new_id) ==
    LET failed(stage, sent, landed) ==
            [result |-> FALSE, record |-> <<NoId, NoIdentifier, sent>>, stage |-> stage,
             sent |-> sent, landed |-> landed, response |-> NoAttributes,
             environment |-> NoEnvironment]
    IN
    IF ~has_user
    THEN [failed("no_user", NoName, FALSE) EXCEPT !.record = held]
    ELSE IF ~res.target_version.ok
    THEN failed("resolve", NoName, FALSE)
    ELSE LET target_version == res.target_version.value
             loader_info == LoaderInfo(target_version, res.preferred_loaders)
             name == BuildName(ConfiguredServerName, target_version.name,
                               loader_info)
             attributes == Attributes(respond, new_id)
         IN  IF target_version.game_versions = <<>>
             THEN failed("environment", NoName, FALSE)
             ELSE LET environment_variables ==
                          EnvironmentVariables(target_version, loader_info)
                  IN  IF respond = "raised"
                      THEN [failed("create_call", name, FALSE)
                                EXCEPT !.environment = environment_variables]
                      ELSE IF attributes = NoAttributes
                              \/ ~AttributesComplete(attributes)
                      THEN [failed("response", name, TRUE)
                                EXCEPT !.response = attributes,
                                       !.environment = environment_variables]
                      ELSE [result |-> TRUE,
                            record |-> <<attributes.id, attributes.identifier,
                                         name>>,
                            stage |-> "created", sent |-> name, landed |-> TRUE,
                            response |-> attributes,
                            environment |-> environment_variables]

\* PterodactylManager._create_server_instance from line 229 on.  held is the
\* record before the call, res the outcome of the version resolution, new_id
\* the id the panel would give.
CreateInstanceRun(has_user, held, res, respond, new_id) ==
    LET failed(stage, sent, landed) ==
            [result |-> FALSE, record |-> EmptyRecord, stage |-> stage,
             sent |-> sent, landed |-> landed, response |-> NoAttributes,
             environment |-> NoEnvironment]
    IN
    IF ~has_user
    THEN [failed("no_user", NoName, FALSE) EXCEPT !.record = held]
    ELSE IF ~res.target_version.ok
    THEN failed("resolve", NoName, FALSE)
    ELSE LET target_version == res.target_version.value
             loader_info == LoaderInfo(target_version, res.preferred_loaders)
             name == BuildName(ConfiguredServerName, target_version.name,
                               loader_info)
             attributes == Attributes(respond, new_id)
         IN  IF target_version.game_versions = <<>>
             THEN failed("environment", NoName, FALSE)
             ELSE LET environment_variables ==
                          EnvironmentVariables(target_version, loader_info)
                  IN  IF respond = "raised"
                      THEN [failed("create_call", name, FALSE)
                                EXCEPT !.environment = environment_variables]
                      ELSE IF attributes = NoAttributes
                              \/ ~AttributesComplete(attributes)
                      THEN [failed("response", name, TRUE)
                                EXCEPT !.response = attributes,
                                       !.environment = environment_variables]
                      ELSE [result |-> TRUE,
                            record |-> <<attributes.id, attributes.identifier,
                                         name>>,
                            stage |-> "created", sent |-> name, landed |-> TRUE,
                            response |-> attributes,
                            environment |-> environment_variables]

\* PterodactylManager.create_server: the instance, then the upload of the
\* configured mod file.  (Nothing between the two can raise, so the handler of
\* lines 190-195 is never entered.)
CreateServerRun(has_user, has_mod_file, held, res, respond, new_id, u) ==
    LET inst == CreateInstanceRun(has_user, held, res, respond, new_id)
    IN  IF ~inst.result THEN inst
        ELSE IF ~has_mod_file
        THEN [inst EXCEPT !.result = FALSE, !.stage = "no_mod_file"]
        ELSE IF ~UploadModFileRun(inst.record[1], inst.record[2], u)
        THEN [inst EXCEPT !.result = FALSE, !.stage = "upload"]
        ELSE [inst EXCEPT !.stage = "uploaded"]

\* The remote calls of one create_server, in order.
CreateServerLog(run, res, u) ==
    CASE run.stage = "no_user" -> <<>>
      [] run.stage \in {"resolve", "environment"} -> res.requests
      [] run.stage = "create_call" ->
             res.requests \o CallOnce("create_server", 0, FALSE)
      [] run.stage \in {"response", "no_mod_file"} ->
             res.requests \o CallOnce("create_server", 0, TRUE)
      [] OTHER ->
             res.requests \o CallOnce("create_server", 0, TRUE)
                 \o UploadLog(run.record[1], run.record[2], u)

\* ------------------------------------------------------------------ update_mod
\* What ModVersionManager.update_mod can come to before it calls create_server:
\* its own request for the feed, the version get_latest_version(['fabric'])
\* picks from it (the same search as _getLatestVersionInfo), and what lines
\* 204-230 of the manager then resolve for that version's id from the feed as
\* it is by then.
UpdatePlan(fetch, later) ==
    LET latest_version == get_latest_version(fetch, <<"fabric">>)
    IN  [latest_version |-> latest_version,
         requests |-> CallOnce("get_versions", 0, fetch.ok),
         res |-> IF latest_version.ok
                 THEN Resolution(later, latest_version.value.id, <<"fabric">>)
                 ELSE Resolution(Raised, NoTarget, <<"fabric">>)]

UpdatePlans == {UpdatePlan(fetch, later) : fetch \in Fetches, later \in Fetches}

\* ModVersionManager.update_mod: False when get_latest_version raises (the
\* handler of lines 200-209) or create_server returns False, True otherwise.
UpdateModRun(plan, has_user, has_mod_file, held, respond, new_id, u) ==
    IF ~plan.latest_version.ok
    THEN [result |-> FALSE, record |-> held, stage |-> "latest_version",
          sent |-> NoName, landed |-> FALSE, response |-> NoAttributes,
          environment |-> NoEnvironment, log |-> plan.requests]
    ELSE LET run == CreateServerRun(has_user, has_mod_file, held, plan.res,
                                    respond, new_id, u)
         IN  [result |-> run.result, record |-> run.record, stage |-> run.stage,
              sent |-> run.sent, landed |-> run.landed,
              response |-> run.response, environment |-> run.environment,
              log |-> plan.requests \o CreateServerLog(run, plan.res, u)]

\* -------------------------------------------------------------------- state
\* No call yet.
NoStatus ==
    [has_server |-> "false", server_state |-> "unknown", server_id |-> NoId,
     server_name |-> NoName, record |-> EmptyRecord]

NoWait ==
    [pc |-> "idle", timeout |-> 0, elapsed |-> 0, result |-> FALSE,
     seen |-> "unknown"]

\* Nothing blocks the event loop, no status query waits for it, neither of the
\* two update tasks has started.
Tasks == {1, 2}
NoLoop == [blocked |-> "none", queries |-> 0, tasks |-> [t \in Tasks |-> "idle"]]

\* The feed, the target version id and the preferred loaders of a call, where
\* the run names them.
NoInput == [fetch |-> Raised, target |-> NoTarget, preferred |-> <<>>]

Idle ==
    [op |-> "none", result |-> FALSE, held |-> EmptyRecord, listed |-> Raised,
     calls |-> <<>>, refused |-> <<>>, failed |-> {}, stage |-> "none",
     sent |-> NoName, response |-> NoAttributes, mine |-> {},
     created_ok |-> FALSE, log |-> <<>>, error |-> "none", landed |-> FALSE,
     status |-> NoStatus, panel |-> [i \in Ids |-> NoName],
     input |-> NoInput, resolved |-> Raised, file |-> NoFile,
     upload |-> UploadFine, mods |-> {}, api |-> "none",
     raised |-> "none", environment |-> NoEnvironment]

\* ------------------------------------------------------------------ shutdown
\* The tasks of the event loop that take part in the shutdown: the task of
\* main(), and one task per signal (loop.create_task(_cleanup())).
MainTask == 0
SignalTasks == 1..MaxSignals
TaskIds == {MainTask} \cup SignalTasks

\* AMVEngine.__init__: no manager, no bot.
NoEngine == [manager |-> FALSE, bot |-> "none"]

\* run.py's globals before main() assigns the engine.
NoRun == [engine |-> FALSE, is_shutting_down |-> FALSE]

\* A task: where it stands, where it goes on when its _cleanup() returns,
\* whether a cancellation was requested and not yet delivered, and what its
\* _cleanup() call met and did.
NoTask ==
    [pc |-> "none", then |-> "none", cancel |-> FALSE, saw_busy |-> FALSE,
     changed |-> FALSE]

\* No engine.cleanup() call yet.
NoCleanup ==
    [pc |-> "idle", owner |-> MainTask, retry_count |-> 0, attempts |-> 0,
     deletes |-> 0, invocations |-> 0, raised |-> "none"]

\* Faulty variant: _cleanup without the test of _is_shutting_down.
CleanupEntryReentrant(g) ==
    IF g.engine
    THEN [run |-> [g EXCEPT !.is_shutting_down = TRUE], invoke |-> TRUE]
    ELSE [run |-> [g EXCEPT !.is_shutting_down = FALSE], invoke |-> FALSE]

\* _cleanup() up to its first await: the globals as it leaves them, and whether
\* it goes on to await engine.cleanup().
CleanupEntry(g) ==
    IF g.is_shutting_down
    THEN [run |-> g, invoke |-> FALSE]
    ELSE IF g.engine
    THEN [run |-> [g EXCEPT !.is_shutting_down = TRUE], invoke |-> TRUE]
    ELSE [run |-> [g EXCEPT !.is_shutting_down = FALSE], invoke |-> FALSE]

\* task.cancel() on every task of `others` that has not finished.
Unfinished(ts, others) ==
    {y \in others : ts[y].pc \in {"created", "running", "api_failed",
                                  "finally", "in_cleanup"}}

CancelAll(ts, others) ==
    [y \in TaskIds |->
        IF y \in Unfinished(ts, others) THEN [ts[y] EXCEPT !.cancel = TRUE]
        ELSE ts[y]]

\* The task x goes on after its _cleanup() call.  When main() ends,
\* asyncio.run stops the loop and cancels every task that is left.
Continue(ts, x) ==
    LET moved == [ts EXCEPT ![x].pc = ts[x].then]
    IN  IF x = MainTask /\ ts[x].then = "done"
        THEN CancelAll(moved, SignalTasks)
        ELSE moved

\* ------------------------------------------------------------------ notifier
\* The loops that poll the status endpoint: Bot.check_status of
\* src/discord_bot/bot.py and Bot.checkStatus of bot/bot.py.
PollingLoops == {"check_status", "checkStatus"}

MaxRetries(polling_loop) ==
    IF polling_loop = "check_status" THEN check_status_max_retries
    ELSE checkStatus_max_retries

NoPolling ==
    [loop |-> "none", pc |-> "idle", retry_count |-> 0, polls |-> 0,
     status |-> "none"]

\* What one GET of the status endpoint can come to: an exception of the
\* request or of raise_for_status, or the status of the JSON answer.
StatusAnswers == {"raised", "success", "failed", "in_progress"}

Init ==
    /\ panel = [i \in Ids |-> NoName]
    /\ next_id = 1
    /\ user \in BOOLEAN
    /\ mod_file \in BOOLEAN
    /\ server_id = NoId
    /\ server_identifier = NoIdentifier
    /\ current_server_name = NoName
    /\ mine = {}
    /\ created_ok = FALSE
    /\ install_state = "installing"
    /\ wait = NoWait
    /\ mods = {}
    /\ loop = NoLoop
    /\ last = Idle
    /\ amv = NoEngine
    /\ globals = NoRun
    /\ tasks = [x \in TaskIds |-> NoTask]
    /\ cleanup = NoCleanup
    /\ notifier = NoPolling

\* The error of the failing calls of a log: one of ErrorKinds when a call
\* failed, "none" when none did.
ErrorsOf(log) ==
    IF \E k \in 1..Len(log) : ~log[k].ok THEN ErrorKinds ELSE {"none"}

install_vars == <<install_state, wait>>

\* ------------------------------------------------------------------ actions
\* What a create_server run leaves behind, for create_server itself and for
\* update_mod.
Created(op, run, log, res, input) ==
    /\ last = Idle
    /\ run.landed => next_id <= MaxServers
    /\ panel' = IF run.landed THEN [panel EXCEPT ![next_id] = run.sent]
                ELSE panel
    /\ next_id' = IF run.landed THEN next_id + 1 ELSE next_id
    /\ mine' = IF run.landed THEN mine \cup {next_id} ELSE mine
    /\ created_ok' = run.result
    /\ install_state' = IF run.landed THEN "installing" ELSE install_state
    /\ server_id' = run.record[1]
    /\ server_identifier' = run.record[2]
    /\ current_server_name' = run.record[3]
    /\ \E error \in ErrorsOf(log) :
           last' = [Idle EXCEPT !.op = op, !.result = run.result,
                                !.held = record, !.stage = run.stage,
                                !.created_ok = created_ok,
                                !.sent = run.sent,
                                !.response = run.response,
                                !.environment = run.environment,
                                !.landed = run.landed,
                                !.log = log, !.error = error,
                                !.raised = Propagated(error),
                                !.mine = mine, !.panel = panel,
                                !.resolved = res.target_version,
                                !.input = input]
    /\ mods' = IF run.stage = "uploaded" THEN {ModFileName}
               ELSE Directory(run.record[1], panel')
    /\ UNCHANGED <<fixed_vars, wait>>

\* The inputs a create_server run consults: no resolution without a user, no
\* answer of the panel unless the create call is reached, no upload unless the
\* server was created and a mod file is configured.
Unresolved == Resolution(Raised, NoTarget, <<"fabric">>)

RespondChoices(has_user, res) ==
    IF /\ has_user
       /\ res.target_version.ok
       /\ res.target_version.value.game_versions # <<>>
    THEN Responses ELSE {"ok"}

UploadChoices(has_user, has_mod_file, res, respond) ==
    IF /\ has_mod_file
       /\ respond = "ok"
       /\ RespondChoices(has_user, res) = Responses
    THEN UploadScenarios ELSE {UploadFine}

\* await manager.create_server(target_version_id, preferred_loaders)
CreateServer ==
    /\ \E res \in IF user THEN Resolutions ELSE {Unresolved} :
        \E respond \in RespondChoices(user, res) :
            \E u \in UploadChoices(user, mod_file, res, respond) :
                LET run == CreateServerRun(user, mod_file, record, res, respond,
                                           next_id, u)
                IN  Created("create_server", run, CreateServerLog(run, res, u),
                            res, NoInput)
    /\ UNCHANGED loop

\* What update_mod does from the answer of its feed request on: the choice of
\* the version and the whole create_server, with no suspension in between.
Updated ==
    \E plan \in UpdatePlans :
        \E respond \in IF plan.latest_version.ok
                       THEN RespondChoices(user, plan.res) ELSE {"ok"} :
            \E u \in IF plan.latest_version.ok
                     THEN UploadChoices(user, mod_file, plan.res, respond)
                     ELSE {UploadFine} :
                LET run == UpdateModRun(plan, user, mod_file, record, respond,
                                        next_id, u)
                IN  Created("update_mod", run, run.log, plan.res, NoInput)

\* await mod_manager.update_mod(manager)
UpdateMod == Updated /\ UNCHANGED loop

\* AMVEngine.delete_server: the manager's result is logged and dropped, the
\* method returns None whatever it was.
delete_server(result) == "None"

\* APIHandler.handle_delete_server: the payload after engine.delete_server
\* came back without raising.
handle_delete_server(engine_result) == "Success"

\* What a deleteServer run leaves behind, for the manager's method itself and
\* for the delete endpoint of the API, which awaits it through the engine.
Deleted(op) ==
    /\ last = Idle
    /\ \E listing \in {Raised, Returned(ListServers(panel))} :
        LET called == IdsOf(DeleteServerRun(server_id, current_server_name,
                                            listing, {}).calls)
        IN  \E fail \in SUBSET called :
                LET run == DeleteServerRun(server_id, current_server_name,
                                           listing, fail)
                    log == DeleteServerLog(listing, run, fail)
                IN  /\ panel' = [i \in Ids |->
                                    IF i \in IdsOf(run.calls) \ fail
                                    THEN NoName ELSE panel[i]]
                    /\ mine' = mine \ (IdsOf(run.calls) \ fail)
                    /\ created_ok' = IF run.reset THEN FALSE ELSE created_ok
                    /\ server_id' = IF run.reset THEN NoId ELSE server_id
                    /\ server_identifier' =
                           IF run.reset THEN NoIdentifier ELSE server_identifier
                    /\ current_server_name' =
                           IF run.reset THEN NoName ELSE current_server_name
                    /\ \E error \in ErrorsOf(log) :
                           last' = [Idle EXCEPT !.op = op,
                                                !.api =
                                                    IF op = "deleteServer"
                                                    THEN "none"
                                                    ELSE handle_delete_server(
                                                             delete_server(
                                                                 run.result)),
                                                !.result = run.result,
                                                !.held = record,
                                                !.listed = listing,
                                                !.calls = run.calls,
                                                !.refused = run.refused,
                                                !.failed = fail,
                                                !.mine = mine,
                                                !.created_ok = created_ok,
                                                !.stage = run.stage,
                                                !.log = log, !.error = error,
                                                !.raised = Propagated(error),
                                                !.panel = panel]
                    /\ mods' = Directory(server_id', panel')
                    /\ UNCHANGED <<next_id, user, mod_file, notifier, install_vars, loop>>

\* await manager.deleteServer()
DeleteServer == Deleted("deleteServer") /\ UNCHANGED shutdown_vars

\* await manager.check_server()
CheckServer ==
    /\ last = Idle
    /\ \E listing \in {Raised, Returned(ListServers(panel))} :
        LET log == QueryLog(server_id, listing)
        IN  /\ \E error \in ErrorsOf(log) :
                   last' = [Idle EXCEPT !.op = "check_server",
                                        !.result = CheckServerRun(server_id, listing),
                                        !.held = record,
                                        !.listed = listing,
                                        !.log = log, !.error = error,
                                        !.panel = panel]
            /\ UNCHANGED <<panel, next_id, fixed_vars, server_id,
                           server_identifier, current_server_name, mine,
                           created_ok, install_vars, mods, loop>>

\* What a get_status run leaves behind, for the manager's method itself and
\* for the status endpoint of the API, which awaits it through the engine.
Queried(op) ==
    /\ last = Idle
    /\ \E listing \in {Raised, Returned(ListServers(panel))} :
        LET status == GetStatusRun(record, listing, install_state)
            log == QueryLog(server_id, listing)
        IN  /\ server_id' = status.record[1]
            /\ server_identifier' = status.record[2]
            /\ current_server_name' = status.record[3]
            /\ \E error \in ErrorsOf(log) :
                   last' = [Idle EXCEPT !.op = op,
                                        !.result = status.has_server = "true",
                                        !.status = status,
                                        !.held = record,
                                        !.listed = listing,
                                        !.log = log, !.error = error,
                                        !.panel = panel]
            /\ UNCHANGED <<panel, next_id, fixed_vars, mine, created_ok,
                           install_vars, mods>>

\* await manager.get_status()
GetStatus == Queried("get_status") /\ UNCHANGED loop

\* The call returns to its caller, and the event loop is free again.  (`last`
\* describes the call that has just returned; every call and every step of
\* another panel user starts from last = Idle, which loses no behaviour of the
\* program.)
Return ==
    /\ last # Idle
    /\ last' = Idle
    /\ loop' = [loop EXCEPT !.blocked = "none"]
    /\ UNCHANGED <<panel, next_id, fixed_vars, server_id, server_identifier,
                   current_server_name, mine, created_ok, install_vars, mods>>

\* Another user of the shared panel creates, renames or deletes a server.
PanelCreate ==
    \E name \in OtherNames :
        /\ last = Idle
        /\ next_id <= MaxServers
        /\ panel' = [panel EXCEPT ![next_id] = name]
        /\ next_id' = next_id + 1
        /\ last' = Idle
        /\ UNCHANGED <<fixed_vars, server_id, server_identifier,
                       current_server_name, mine, created_ok, install_vars, mods, loop>>

PanelRename ==
    \E i \in LiveIds(panel) :
        /\ last = Idle
        /\ panel[i] # RenamedByAdmin
        /\ panel' = [panel EXCEPT ![i] = RenamedByAdmin]
        /\ last' = Idle
        /\ UNCHANGED <<next_id, fixed_vars, server_id, server_identifier,
                       current_server_name, mine, created_ok, install_vars, mods, loop>>

PanelDelete ==
    \E i \in LiveIds(panel) :
        /\ last = Idle
        /\ panel' = [panel EXCEPT ![i] = NoName]
        /\ mine' = mine \ {i}
        /\ mods' = Directory(server_id, panel')
        /\ last' = Idle
        /\ UNCHANGED <<next_id, fixed_vars, server_id, server_identifier,
                       current_server_name, created_ok, install_vars, loop>>

\* ------------------------------------------- create, wait, get_status, delete
\* The sequence of test_server_installation_wait on an empty panel: one create,
\* then waits and status queries while the panel installs the server (or
\* another user deletes it).
InstallCreate == next_id = 1 /\ CreateServer

\* await manager.wait_for_server_installation(timeout_seconds)
StartWait ==
    \E timeout \in Timeouts :
        /\ last = Idle
        /\ wait.pc # "polling"
        /\ wait' = [NoWait EXCEPT !.pc = "polling", !.timeout = timeout]
        /\ UNCHANGED <<panel, next_id, fixed_vars, server_id,
                       server_identifier, current_server_name, mine, created_ok,
                       install_state, mods, loop, last>>

\* One round of the wait: get_status, then return or sleep.
Poll ==
    \E listing \in {Raised, Returned(ListServers(panel))} :
        /\ last = Idle
        /\ wait.pc = "polling"
        /\ wait' = WaitPoll(wait, GetStatusRun(record, listing,
                                               install_state).server_state)
        /\ UNCHANGED <<panel, next_id, fixed_vars, server_id,
                       server_identifier, current_server_name, mine, created_ok,
                       install_state, mods, loop, last>>

\* The panel's installer finishes, one way or the other.
InstallProgress ==
    \E state \in TerminalSuccess \cup TerminalFailure :
        /\ last = Idle
        /\ server_id # NoId /\ panel[server_id] # NoName
        /\ install_state = "installing"
        /\ install_state' = state
        /\ UNCHANGED <<panel, next_id, fixed_vars, server_id,
                       server_identifier, current_server_name, mine, created_ok,
                       wait, mods, loop, last>>

\* ------------------------------------------------------------- the upload
\* await manager.upload_mod_file(file_path), called on the manager directly as
\* test_mod_upload and test_full_update_flow do.  The POST puts the file into
\* /mods of the held server under its base name; nothing is removed.
UploadModFile ==
    /\ last = Idle
    /\ \E file \in FileNames :
           \E u \in IF server_id # NoId /\ server_identifier # NoIdentifier
                    THEN UploadScenarios ELSE {UploadFine} :
               LET result == UploadModFileRun(server_id, server_identifier, u)
                   log == UploadLog(server_id, server_identifier, u)
               IN  /\ mods' = IF result THEN mods \cup {file} ELSE mods
                   /\ \E error \in ErrorsOf(log) :
                          last' = [Idle EXCEPT !.op = "upload_mod_file",
                                               !.result = result,
                                               !.held = record,
                                               !.file = file,
                                               !.upload = u,
                                               !.mods = mods,
                                               !.log = log, !.error = error,
                                               !.raised = Propagated(error),
                                               !.panel = panel]
    /\ UNCHANGED <<panel, next_id, fixed_vars, server_id,
                   server_identifier, current_server_name, mine, created_ok,
                   install_vars, loop>>

\* One create_server on an empty panel, then uploads to the server it made
\* and deleteServer.
UploadCreate == next_id = 1 /\ CreateServer

UploadNext ==
    \/ UploadCreate
    \/ UploadModFile
    \/ DeleteServer
    \/ Return

UploadSpec == Init /\ [][UploadNext]_vars

\* ---------------------------------------------------------------- the API
\* DELETE endpoint: handle_delete_server awaits engine.delete_server, which
\* awaits manager.deleteServer.  (The engine of this model has its manager.)
DeleteEndpoint == Deleted("handle_delete_server") /\ UNCHANGED shutdown_vars

\* The update endpoint and the delete endpoint of one engine.
ApiNext ==
    \/ UpdateMod
    \/ DeleteEndpoint
    \/ Return

ApiSpec == Init /\ [][ApiNext]_vars

\* --------------------------------------------------------- the event loop
\* The engine runs its coroutines on one event loop.  The panel client is
\* synchronous (requests): a coroutine that calls it keeps the thread of the
\* loop until the panel has answered, and no other coroutine runs meanwhile.
LifecycleOps == {"create_server", "deleteServer", "upload_mod_file"}

\* A lifecycle coroutine is scheduled and runs up to its panel call.
EnterCall ==
    /\ last = Idle
    /\ loop.blocked = "none"
    /\ \E op \in LifecycleOps : loop' = [loop EXCEPT !.blocked = op]
    /\ UNCHANGED <<panel, next_id, fixed_vars, server_id, server_identifier,
                   current_server_name, mine, created_ok, install_vars, mods,
                   last>>

\* The panel answers and the operation runs to its end.  (A hung call is a
\* behaviour in which this step never comes.)
FinishCreate == loop.blocked = "create_server" /\ next_id = 1 /\ CreateServer
FinishDelete == loop.blocked = "deleteServer" /\ DeleteServer
FinishUpload == loop.blocked = "upload_mod_file" /\ UploadModFile

\* A status query reaches the server socket.
QueryArrives ==
    /\ last = Idle
    /\ loop.queries < MaxQueries
    /\ loop' = [loop EXCEPT !.queries = @ + 1]
    /\ UNCHANGED <<panel, next_id, fixed_vars, server_id, server_identifier,
                   current_server_name, mine, created_ok, install_vars, mods,
                   last>>

\* The loop schedules handle_status_request, which awaits engine.get_status
\* and through it manager.get_status (and IsInstalled, one more list call
\* that writes nothing).
StatusEndpoint ==
    /\ loop.blocked = "none"
    /\ loop.queries > 0
    /\ Queried("handle_status_request")
    /\ loop' = [loop EXCEPT !.queries = @ - 1]

LoopNext ==
    \/ EnterCall
    \/ FinishCreate
    \/ FinishDelete
    \/ FinishUpload
    \/ QueryArrives
    \/ StatusEndpoint
    \/ Return

LoopSpec == Init /\ [][LoopNext]_vars

\* --------------------------------------------------- two update triggers
\* Two update triggers on one engine: each task runs handle_mod_update and
\* through it update_mod on the shared manager.  update_mod suspends once, in
\* "await client.get(url)" of get_latest_version; from the answer on it runs
\* without suspension to its end, create_server included.
UpdateBegin(t) ==
    /\ last = Idle
    /\ loop.tasks[t] = "idle"
    /\ loop' = [loop EXCEPT !.tasks[t] = "awaiting"]
    /\ UNCHANGED <<panel, next_id, fixed_vars, server_id, server_identifier,
                   current_server_name, mine, created_ok, install_vars, mods,
                   last>>

UpdateResume(t) ==
    /\ loop.tasks[t] = "awaiting"
    /\ Updated
    /\ loop' = [loop EXCEPT !.tasks[t] = "done"]

ConcurrentNext ==
    \/ \E t \in Tasks : UpdateBegin(t)
    \/ \E t \in Tasks : UpdateResume(t)
    \/ Return

ConcurrentSpec == Init /\ [][ConcurrentNext]_vars

\* ------------------------------------------------------------ the resolver
\* _getLatestVersionInfo(preferred_loaders) on a feed.
ResolveLatest ==
    /\ last = Idle
    /\ \E fetch \in ResolverFetches, preferred \in ResolverPreferred :
           last' = [Idle EXCEPT
                        !.op = "get_latest_version",
                        !.resolved = GetLatestVersionInfo(fetch, preferred),
                        !.result = GetLatestVersionInfo(fetch, preferred).ok,
                        !.log = CallOnce("get_versions", 0, fetch.ok),
                        !.input = [fetch |-> fetch, target |-> NoTarget,
                                   preferred |-> preferred],
                        !.panel = panel]
    /\ UNCHANGED <<panel, next_id, fixed_vars, server_id,
                   server_identifier, current_server_name, mine, created_ok,
                   install_vars, mods, loop>>

\* await mod_manager.get_latest_version(preferred_loaders) on a feed.
GetLatestVersion ==
    /\ last = Idle
    /\ \E fetch \in ResolverFetches, preferred \in ResolverPreferred :
           last' = [Idle EXCEPT
                        !.op = "ModVersionManager.get_latest_version",
                        !.resolved = get_latest_version(fetch, preferred),
                        !.result = get_latest_version(fetch, preferred).ok,
                        !.log = CallOnce("get_versions", 0, fetch.ok),
                        !.input = [fetch |-> fetch, target |-> NoTarget,
                                   preferred |-> preferred],
                        !.panel = panel]
    /\ UNCHANGED <<panel, next_id, fixed_vars, server_id,
                   server_identifier, current_server_name, mine, created_ok,
                   install_vars, mods, loop>>

\* create_server(target_version_id, preferred_loaders) on an empty panel, the
\* feed being what the two requests of lines 204-230 see.
CreateFromFeed ==
    /\ last = Idle
    /\ next_id = 1
    /\ user
    /\ \E fetch \in ResolverFetches, target \in ResolverTargetIds,
          preferred \in ResolverPreferred :
           LET res == Resolution(fetch, target, preferred)
           IN  \E respond \in RespondChoices(user, res) :
                   \E u \in UploadChoices(user, mod_file, res, respond) :
                       LET run == CreateServerRun(user, mod_file, record, res,
                                                  respond, next_id, u)
                       IN  Created("create_server", run,
                                   CreateServerLog(run, res, u), res,
                                   [fetch |-> fetch, target |-> target,
                                    preferred |-> preferred])
    /\ UNCHANGED loop

ResolverNext ==
    \/ ResolveLatest
    \/ GetLatestVersion
    \/ CreateFromFeed
    \/ Return

ResolverSpec == Init /\ [][ResolverNext]_vars

InstallNext ==
    \/ InstallCreate
    \/ Return
    \/ StartWait
    \/ Poll
    \/ InstallProgress
    \/ GetStatus
    \/ PanelDelete

InstallSpec == Init /\ [][InstallNext]_vars

Next ==
    \/ CreateServer
    \/ UpdateMod
    \/ DeleteServer
    \/ CheckServer
    \/ GetStatus
    \/ Return
    \/ PanelCreate
    \/ PanelRename
    \/ PanelDelete

Spec == Init /\ [][Next]_vars

\* ------------------------------------------------------------------ shutdown
\* The tasks of one event loop run one at a time and give way only at an
\* await that suspends: no other task takes a step while the task inside
\* engine.cleanup() is between two such awaits.
AtAwait ==
    cleanup.pc \in {"idle", "retry_sleep", "bot_gather", "wait", "returned",
                    "raised"}

\* main() of run.py, lines 232-246: the engine is assigned to the global and
\* initialized (AMVEngine.initialize: the manager, then the bot unless in test
\* mode or without a token), and the API server is started.  A failing
\* initialize raises into the finally block; a failing API start awaits
\* _cleanup() and returns through it.
MainStart ==
    /\ tasks[MainTask].pc = "none"
    /\ AtAwait
    /\ \E with_bot \in BOOLEAN, failed \in {"none", "manager", "bot", "api"} :
        /\ failed = "bot" => with_bot
        /\ globals' = [globals EXCEPT !.engine = TRUE]
        /\ amv' = [manager |-> failed # "manager",
                   bot |-> IF with_bot /\ failed # "manager" THEN "open"
                           ELSE "none"]
        /\ tasks' = [tasks EXCEPT
                        ![MainTask].pc =
                            CASE failed = "none" -> "running"
                              [] failed = "api" -> "api_failed"
                              [] OTHER -> "finally",
                        ![MainTask].then =
                            IF failed = "api" THEN "finally" ELSE "done"]
    /\ UNCHANGED <<panel, next_id, user, mod_file, server_id, server_identifier,
                   current_server_name, mine, created_ok, install_vars, mods,
                   loop, last, cleanup, notifier>>

\* The bot is closed while the process runs (Bot.close).
BotCloses ==
    /\ tasks[MainTask].pc = "running"
    /\ cleanup.pc = "idle"
    /\ ~tasks[MainTask].cancel
    /\ amv.bot = "open"
    /\ amv' = [amv EXCEPT !.bot = "closed"]
    /\ UNCHANGED <<panel, next_id, user, mod_file, server_id, server_identifier,
                   current_server_name, mine, created_ok, install_vars, mods,
                   loop, last, globals, tasks, cleanup, notifier>>

\* The engine serves one update on an empty panel while main() sleeps in its
\* loop, before the first signal.
ServeCreate ==
    /\ tasks[MainTask].pc = "running"
    /\ \A t \in SignalTasks : tasks[t].pc = "none"
    /\ amv.manager
    /\ next_id = 1
    /\ CreateServer

\* signal_handler with the loop running: loop.create_task(_cleanup()).
Signal(t) ==
    /\ tasks[t].pc = "none"
    /\ tasks[MainTask].pc # "done"
    /\ tasks' = [tasks EXCEPT ![t].pc = "created", ![t].then = "done"]
    /\ UNCHANGED <<panel, next_id, user, mod_file, server_id, server_identifier,
                   current_server_name, mine, created_ok, install_vars, mods,
                   loop, last, amv, globals, cleanup, notifier>>

\* The CancelledError thrown into the sleep of main()'s loop: no except clause
\* of main() takes it, the finally block awaits _cleanup().
MainCancelled ==
    /\ tasks[MainTask].pc = "running"
    /\ tasks[MainTask].cancel
    /\ AtAwait
    /\ tasks' = [tasks EXCEPT ![MainTask].pc = "finally",
                              ![MainTask].cancel = FALSE]
    /\ UNCHANGED <<panel, next_id, user, mod_file, server_id, server_identifier,
                   current_server_name, mine, created_ok, install_vars, mods,
                   loop, last, amv, globals, cleanup, notifier>>

\* A task cancelled before its first step never enters _cleanup().
NeverStarted(t) ==
    /\ tasks[t].pc = "created"
    /\ tasks[t].cancel
    /\ AtAwait
    /\ tasks' = [tasks EXCEPT ![t].pc = "cancelled", ![t].cancel = FALSE]
    /\ UNCHANGED <<panel, next_id, user, mod_file, server_id, server_identifier,
                   current_server_name, mine, created_ok, install_vars, mods,
                   loop, last, amv, globals, cleanup, notifier>>

\* _cleanup() of run.py, lines 49-58, called by the task x: up to the await of
\* engine.cleanup(), or to its return when there is nothing to await.
CleanupCall(x) ==
    /\ AtAwait
    /\ \/ x \in SignalTasks /\ tasks[x].pc = "created" /\ ~tasks[x].cancel
       \/ x = MainTask /\ tasks[x].pc \in {"api_failed", "finally"}
    /\ LET entry == CleanupEntry(globals)
           met == [tasks EXCEPT
                      ![x].saw_busy = globals.is_shutting_down,
                      ![x].changed = entry.invoke \/ entry.run # globals]
       IN  /\ globals' = entry.run
           /\ IF entry.invoke
              THEN /\ cleanup' = [NoCleanup EXCEPT
                                     !.pc = "start", !.owner = x,
                                     !.invocations = cleanup.invocations + 1]
                   /\ tasks' = [met EXCEPT ![x].pc = "in_cleanup"]
              ELSE /\ cleanup' = cleanup
                   /\ tasks' = Continue(met, x)
    /\ UNCHANGED <<panel, next_id, user, mod_file, server_id, server_identifier,
                   current_server_name, mine, created_ok, install_vars, mods,
                   loop, last, amv, notifier>>

\* AMVEngine.cleanup, line 189: is there a bot to close?
CleanupBot ==
    /\ cleanup.pc = "start"
    /\ cleanup' = [cleanup EXCEPT
                      !.pc = IF amv.bot = "open" THEN "bot_shutdown"
                             ELSE "pterodactyl"]
    /\ UNCHANGED <<panel, next_id, user, mod_file, server_id, server_identifier,
                   current_server_name, mine, created_ok, install_vars, mods,
                   loop, last, amv, globals, tasks, notifier>>

\* One attempt of the retry loop, lines 194-205: await self.bot._shutdown().
\* Bot._shutdown cancels every other task of the loop and awaits them
\* (bot.py, lines 85-93); an Exception out of it counts as a failed attempt.
BotShutdown ==
    /\ cleanup.pc = "bot_shutdown"
    /\ \/ /\ cleanup' = [cleanup EXCEPT !.pc = "bot_gather",
                                        !.attempts = cleanup.attempts + 1]
          /\ tasks' = CancelAll(tasks, TaskIds \ {cleanup.owner})
       \/ /\ cleanup' = [cleanup EXCEPT
                            !.attempts = cleanup.attempts + 1,
                            !.retry_count = cleanup.retry_count + 1,
                            !.pc = IF cleanup.retry_count + 1 = max_retries
                                   THEN "pterodactyl" ELSE "retry_sleep"]
          /\ tasks' = tasks
    /\ UNCHANGED <<panel, next_id, user, mod_file, server_id, server_identifier,
                   current_server_name, mine, created_ok, install_vars, mods,
                   loop, last, amv, globals, notifier>>

\* await asyncio.sleep(1) before the next attempt, line 205.
RetrySleep ==
    /\ cleanup.pc = "retry_sleep"
    /\ ~tasks[cleanup.owner].cancel
    /\ cleanup' = [cleanup EXCEPT !.pc = "bot_shutdown"]
    /\ UNCHANGED <<panel, next_id, user, mod_file, server_id, server_identifier,
                   current_server_name, mine, created_ok, install_vars, mods,
                   loop, last, amv, globals, tasks, notifier>>

\* The tasks Bot._shutdown cancelled have all finished: it closes the bot and
\* returns, and the retry loop is left (lines 196-198).
BotGathered ==
    /\ cleanup.pc = "bot_gather"
    /\ ~tasks[cleanup.owner].cancel
    /\ Unfinished(tasks, TaskIds \ {cleanup.owner}) = {}
    /\ amv' = [amv EXCEPT !.bot = "closed"]
    /\ cleanup' = [cleanup EXCEPT !.pc = "pterodactyl"]
    /\ UNCHANGED <<panel, next_id, user, mod_file, server_id, server_identifier,
                   current_server_name, mine, created_ok, install_vars, mods,
                   loop, last, globals, tasks, notifier>>

\* Lines 208-216: await self.pterodactyl_manager.deleteServer() under the
\* timeout (deleteServer never suspends, so the timeout cannot cut it short),
\* when there is a manager.
CleanupPterodactyl ==
    /\ cleanup.pc = "pterodactyl"
    /\ IF amv.manager
       THEN /\ Deleted("AMVEngine.cleanup")
            /\ cleanup' = [cleanup EXCEPT !.pc = "remaining",
                                          !.deletes = cleanup.deletes + 1]
       ELSE /\ cleanup' = [cleanup EXCEPT !.pc = "remaining"]
            /\ UNCHANGED <<panel, next_id, user, mod_file, server_id,
                           server_identifier, current_server_name, mine,
                           created_ok, install_vars, mods, loop, last,
                           notifier>>
    /\ UNCHANGED <<amv, globals, tasks>>

\* Lines 219-228: the remaining tasks are cancelled and awaited for up to
\* five seconds.
CleanupRemaining ==
    /\ cleanup.pc = "remaining"
    /\ tasks' = CancelAll(tasks, TaskIds \ {cleanup.owner})
    /\ cleanup' = [cleanup EXCEPT
                      !.pc = IF Unfinished(tasks, TaskIds \ {cleanup.owner}) # {}
                             THEN "wait" ELSE "return"]
    /\ UNCHANGED <<panel, next_id, user, mod_file, server_id, server_identifier,
                   current_server_name, mine, created_ok, install_vars, mods,
                   loop, last, amv, globals, notifier>>

\* asyncio.wait(tasks, timeout=5) returns: the tasks are done, or the five
\* seconds are over.
CleanupWaited ==
    /\ cleanup.pc = "wait"
    /\ ~tasks[cleanup.owner].cancel
    /\ cleanup' = [cleanup EXCEPT !.pc = "return"]
    /\ UNCHANGED <<panel, next_id, user, mod_file, server_id, server_identifier,
                   current_server_name, mine, created_ok, install_vars, mods,
                   loop, last, amv, globals, tasks, notifier>>

\* engine.cleanup() returns to _cleanup(), lines 63-66 of run.py: the global
\* engine is emptied, _is_shutting_down is reset, the task goes on.
CleanupReturn ==
    /\ cleanup.pc = "return"
    /\ cleanup' = [cleanup EXCEPT !.pc = "returned"]
    /\ globals' = [engine |-> FALSE, is_shutting_down |-> FALSE]
    /\ tasks' = Continue(tasks, cleanup.owner)
    /\ UNCHANGED <<panel, next_id, user, mod_file, server_id, server_identifier,
                   current_server_name, mine, created_ok, install_vars, mods,
                   loop, last, amv, notifier>>

\* The task awaiting inside engine.cleanup() was cancelled: the CancelledError
\* is thrown into the await it is suspended at.  No `except Exception` of
\* Bot._shutdown, of AMVEngine.cleanup or of _cleanup takes it; only the
\* finally block of _cleanup runs (engine = None), line 66 does not.
CleanupCancelled ==
    /\ cleanup.pc \in {"retry_sleep", "bot_gather", "wait"}
    /\ tasks[cleanup.owner].cancel
    /\ cleanup' = [cleanup EXCEPT !.pc = "raised", !.raised = "CancelledError"]
    /\ globals' = [globals EXCEPT !.engine = FALSE]
    /\ tasks' = [tasks EXCEPT ![cleanup.owner].pc = "cancelled",
                              ![cleanup.owner].cancel = FALSE]
    /\ UNCHANGED <<panel, next_id, user, mod_file, server_id, server_identifier,
                   current_server_name, mine, created_ok, install_vars, mods,
                   loop, last, amv, notifier>>

ShutdownNext ==
    \/ MainStart
    \/ BotCloses
    \/ ServeCreate
    \/ Return
    \/ \E t \in SignalTasks : Signal(t)
    \/ MainCancelled
    \/ \E t \in SignalTasks : NeverStarted(t)
    \/ \E x \in TaskIds : CleanupCall(x)
    \/ CleanupBot
    \/ BotShutdown
    \/ RetrySleep
    \/ BotGathered
    \/ CleanupPterodactyl
    \/ CleanupRemaining
    \/ CleanupWaited
    \/ CleanupReturn
    \/ CleanupCancelled

ShutdownSpec == Init /\ [][ShutdownNext]_vars

\* ------------------------------------------------------------------ notifier
\* The bot starts one of its polling loops.  check_status returns at once
\* without an embed (lines 236-237).
StartPolling ==
    /\ notifier.pc = "idle"
    /\ \E polling_loop \in PollingLoops, has_embed \in BOOLEAN :
        /\ polling_loop = "checkStatus" => has_embed
        /\ notifier' = [NoPolling EXCEPT
                           !.loop = polling_loop,
                           !.pc = IF has_embed THEN "polling" ELSE "done"]
    /\ UNCHANGED <<panel, next_id, user, mod_file, server_id, server_identifier,
                   current_server_name, mine, created_ok, install_vars, mods,
                   loop, last, shutdown_vars>>

\* One round of `while retry_count < max_retries` of Bot.check_status, lines
\* 252-284: a terminal status breaks; a status in progress and an exception
\* both count a retry and sleep.
PollCheckStatus ==
    /\ notifier.loop = "check_status"
    /\ notifier.pc = "polling"
    /\ \E answer \in StatusAnswers :
        LET retry_count == IF answer \in {"success", "failed"}
                           THEN notifier.retry_count
                           ELSE notifier.retry_count + 1
        IN  notifier' = [notifier EXCEPT
                            !.polls = notifier.polls + 1,
                            !.status = answer,
                            !.retry_count = retry_count,
                            !.pc = IF answer \in {"success", "failed"}
                                      \/ ~(retry_count < check_status_max_retries)
                                   THEN "done" ELSE "polling"]
    /\ UNCHANGED <<panel, next_id, user, mod_file, server_id, server_identifier,
                   current_server_name, mine, created_ok, install_vars, mods,
                   loop, last, shutdown_vars>>

\* One round of `while True` of Bot.checkStatus, lines 192-232: only an
\* exception counts a retry, the finally block breaks at max_retries, the
\* answer of a request that went through is not read.
PollCheckStatusLegacy ==
    /\ notifier.loop = "checkStatus"
    /\ notifier.pc = "polling"
    /\ notifier.polls < MaxPolls
    /\ \E answer \in StatusAnswers :
        LET retry_count == IF answer = "raised"
                           THEN notifier.retry_count + 1
                           ELSE notifier.retry_count
        IN  notifier' = [notifier EXCEPT
                            !.polls = notifier.polls + 1,
                            !.status = answer,
                            !.retry_count = retry_count,
                            !.pc = IF retry_count >= checkStatus_max_retries
                                   THEN "done" ELSE "polling"]
    /\ UNCHANGED <<panel, next_id, user, mod_file, server_id, server_identifier,
                   current_server_name, mine, created_ok, install_vars, mods,
                   loop, last, shutdown_vars>>

NotifierNext ==
    \/ StartPolling
    \/ PollCheckStatus
    \/ PollCheckStatusLegacy

NotifierSpec == Init /\ [][NotifierNext]_vars

\* ============================================================= properties
\* A state with last.op = "deleteServer" (or another call) is the state right
\* after that call: `last` holds what the call saw and did, the other
\* variables what it left behind.

\* The entries of a successful list call.
Listed(listing) ==
    IF ~listing.ok THEN {}
    ELSE UNION {{listing.value[j][k] : k \in 1..Len(listing.value[j])} :
                    j \in 1..Len(listing.value)}

AfterDelete == last.op = "deleteServer"
AfterCreate == last.op = "create_server"
AfterCheck == last.op = "check_server"

held_id == last.held[1]
held_name == last.held[3]

\* The record the last call found was written by a create call that returned
\* True.
HeldFromCreate == held_id # NoId /\ last.created_ok

\* The servers the last deleteServer listed are all still there under their
\* names, but for those in S.
Untouched(S) ==
    \A e \in Listed(last.listed) : e.id \notin S => panel[e.id] = e.name

\* C1: deleteServer issues a remote delete call for a listed server only if
\* its name starts with "AMV:" and its id is the held server_id or its name
\* the held current_server_name; every other listed server stays.
C1_DeleteOnlyPrefixedMatch ==
    AfterDelete =>
        /\ \A e \in Listed(last.listed) :
               e.id \in IdsOf(last.calls) =>
                   /\ StartsWith(e.name, Prefix)
                   /\ e.id = held_id \/ e.name = held_name
        /\ IdsOf(last.calls) \subseteq {e.id : e \in Listed(last.listed)}
        /\ Untouched(IdsOf(last.calls))

\* A delete that removed the held server and left a prefixed server of
\* another owner, next to a server without the prefix, alone.
C1_Witness ==
    /\ AfterDelete
    /\ held_id \in IdsOf(last.calls)
    /\ \E e \in Listed(last.listed) :
           /\ e.id \notin IdsOf(last.calls)
           /\ StartsWith(e.name, Prefix)
           /\ panel[e.id] = e.name

\* C2: create called while a record is held (written by a create that
\* returned True) first deletes the previously held server, so that the
\* previously held server and the newly created one are never live together
\* and at most one server this manager created is live.
C2_CreateDeletesHeldFirst ==
    (AfterCreate /\ HeldFromCreate /\ last.response.id # NoId) =>
        /\ ~(panel[held_id] # NoName /\ panel[last.response.id] # NoName)
        /\ Cardinality(mine) <= 1

\* The list the last deleteServer got shows the held id under a name without
\* the prefix.
HeldIdListedUnprefixed ==
    /\ AfterDelete
    /\ held_id # NoId
    /\ \E e \in Listed(last.listed) :
           e.id = held_id /\ ~StartsWith(e.name, Prefix)

\* C3 as claimed: with the held id listed under a name without the prefix,
\* delete issues no remote delete call, returns false and clears the record.
\* (Stated for a record written by a create that returned True, the held
\* server being the only one on the panel that this manager created.)
C3_Original ==
    (HeldIdListedUnprefixed /\ HeldFromCreate /\ last.mine \subseteq {held_id}) =>
        /\ last.calls = <<>>
        /\ ~last.result
        /\ record = EmptyRecord

\* C3 as amended: with the held id listed under a name without the prefix,
\* delete issues no remote delete call for that server, which stays as it
\* is, and clears the record; unless another listed server carries the held
\* name it issues no delete call at all and returns false.
C3_RefusesHeldIdWithoutPrefix ==
    HeldIdListedUnprefixed =>
        /\ held_id \notin IdsOf(last.calls)
        /\ panel[held_id] # NoName /\ ~StartsWith(panel[held_id], Prefix)
        /\ record = EmptyRecord
        /\ (\A e \in Listed(last.listed) : e.name # held_name) =>
               (last.calls = <<>> /\ ~last.result)

C3_Witness ==
    /\ HeldIdListedUnprefixed
    /\ last.calls = <<>>
    /\ ~last.result
    /\ \E e \in Listed(last.listed) : StartsWith(e.name, Prefix)

\* C4 as claimed: on a safety-check failure the local state is as it was
\* before the delete call.  (Stated for a record written by a create that
\* returned True.)
C4_Original ==
    (AfterDelete /\ last.refused # <<>> /\ HeldFromCreate) => record = last.held

\* C4 as amended: on a safety-check failure the deletion of that candidate is
\* refused (no delete call for it, it stays on the panel) and the local state
\* is cleared by that delete call.
C4_RefusalClearsRecord ==
    (AfterDelete /\ last.refused # <<>>) =>
        /\ IdsOf(last.refused) \cap IdsOf(last.calls) = {}
        /\ \A i \in IdsOf(last.refused) : panel[i] # NoName
        /\ record = EmptyRecord
        /\ last.held # EmptyRecord

C4_Witness ==
    /\ AfterDelete
    /\ last.refused # <<>>
    /\ held_name # NoName
    /\ last.listed.ok

\* Nothing is held: server_id and current_server_name are both empty.
NothingHeld == held_id = NoId /\ held_name = NoName

\* C5 as claimed: delete with no record held deletes nothing, leaves the
\* record empty and returns true, whatever the list the panel returns holds.
C5_Original ==
    (AfterDelete /\ NothingHeld /\ last.listed.ok) =>
        /\ last.calls = <<>>
        /\ record = EmptyRecord
        /\ last.result

\* C5 as amended: delete with no record held deletes nothing, leaves the
\* record empty and returns false, whatever the list holds.
C5_NoRecordDeletesNothing ==
    (AfterDelete /\ NothingHeld) =>
        /\ last.calls = <<>>
        /\ Untouched({})
        /\ record = EmptyRecord
        /\ ~last.result

\* No record is held and the list holds a server with the prefix.
C5_Witness ==
    /\ AfterDelete
    /\ NothingHeld
    /\ \E e \in Listed(last.listed) : StartsWith(e.name, Prefix)

\* The last deleteServer met no gateway-level error: the list call and every
\* delete call it issued returned.
NoGatewayError == last.listed.ok /\ last.failed = {}

\* C6: whenever delete completes without a gateway-level error the record is
\* empty afterwards, also when the list is empty or holds no match.  (Stated
\* for no record or a record written by a create that returned True.)
C6_DeleteAlwaysClears ==
    (AfterDelete /\ NoGatewayError /\ (NothingHeld \/ HeldFromCreate))
        => record = EmptyRecord

\* C7 as claimed: delete returns false only on a gateway-level error of the
\* list call or of a delete call.
C7_Original ==
    (AfterDelete /\ ~last.result) => ~NoGatewayError

\* C7 as amended: delete returns true exactly when it issued a remote delete
\* call that succeeded; it returns false on a failing list call, on an empty
\* list, when no listed server matches, when the candidates are refused and
\* when the delete calls fail.
C7_TrueIffDeleted ==
    AfterDelete => (last.result <=> IdsOf(last.calls) \ last.failed # {})

\* A record is held, the list call succeeds, holds servers, none matches.
C7_Witness ==
    /\ AfterDelete
    /\ held_id # NoId
    /\ NoGatewayError
    /\ Listed(last.listed) # {}
    /\ last.calls = <<>> /\ last.refused = <<>>
    /\ ~last.result

\* C8: with the held id listed under the held, prefixed name (and no failing
\* call), delete issues a remote delete for exactly that id, clears the
\* record and returns true; a check after it reports the server absent.
\* (Stated for a record written by a create that returned True, the held
\* server being the only one on the panel that this manager created.)
C8_DeletesExactlyHeld ==
    /\ (/\ AfterDelete
        /\ HeldFromCreate
        /\ last.mine \subseteq {held_id}
        /\ NoGatewayError
        /\ \E e \in Listed(last.listed) :
               e.id = held_id /\ e.name = held_name /\ StartsWith(e.name, Prefix))
           => /\ IdsOf(last.calls) = {held_id}
              /\ panel[held_id] = NoName
              /\ record = EmptyRecord
              /\ last.result
    /\ (AfterCheck /\ held_id = NoId) => ~last.result

\* C9: whenever create returns true the record holds the id and the
\* identifier of the create response, both non-empty, and the name sent in the
\* create call, under which the panel now lists that id; and check_server
\* returns true whenever the list it gets holds the held id.
C9_CreateTruePopulates ==
    /\ (AfterCreate /\ last.result) =>
           /\ server_id # NoId /\ server_identifier # NoIdentifier
           /\ server_id = last.response.id
           /\ server_identifier = last.response.identifier
           /\ current_server_name = last.sent
           /\ StartsWith(current_server_name, Prefix)
           /\ panel[server_id] = current_server_name
    /\ (AfterCheck /\ \E e \in Listed(last.listed) : e.id = held_id)
           => last.result

\* A create that returns true while an earlier record was held.
C9_Witness == AfterCreate /\ last.result /\ held_id # NoId

\* (the second half of C9 happens too) a check that finds the held server on
\* a later page of the list.
C9_CheckFindsOnLaterPage ==
    /\ AfterCheck /\ last.result
    /\ Len(last.listed.value) > 1
    /\ \A k \in 1..Len(last.listed.value[1]) :
           last.listed.value[1][k].id # held_id

\* C10: whenever create returns false the record is empty afterwards, at
\* whatever step it failed.
C10_CreateFalseClears ==
    (AfterCreate /\ ~last.result) => record = EmptyRecord

AfterUpdate == last.op = "update_mod"
AfterStatus == last.op = "get_status"

\* The positions of the log of the last call that hold a call of these kinds.
CallsOf(kinds) == {k \in 1..Len(last.log) : last.log[k].call \in kinds}

UploadCalls == {"create_folder", "get_upload_file_url", "post"}

\* C11: when update_mod (resolve, create, upload) returns False after its
\* create call made a server on the panel, a remote delete call was issued
\* after the create call, before the result went back to the caller.
C11_FailedUpdateDeletesInstance ==
    (AfterUpdate /\ ~last.result /\ last.landed) =>
        \E c \in CallsOf({"create_server"}), d \in CallsOf({"delete_server"}) :
            c < d

\* C12: in every run of the update sequence (update_mod, or create_server on
\* its own) a call of the upload comes only after the status of the new server
\* was polled (a list call after the create call), never directly after the
\* create call.
C12_UploadOnlyAfterInstallWait ==
    (AfterUpdate \/ AfterCreate) =>
        \A up \in CallsOf(UploadCalls) :
            \E c \in CallsOf({"create_server"}), w \in CallsOf({"list_servers"}) :
                c < w /\ w < up

WaitDone == wait.pc = "done"

FailedCalls == {k \in 1..Len(last.log) : ~last.log[k].ok}

\* How often the call at position k was attempted in the last operation.
Attempts(k) == Cardinality({j \in 1..Len(last.log) : last.log[j] = last.log[k]})

\* The calls whose failure ends the operation they are part of (a failing
\* delete call or folder call is logged and passed over).
EndingCalls ==
    {"list_servers", "get_version", "get_versions", "create_server",
     "get_upload_file_url", "post"}

max_attempts == 3

\* C15: a remote call that keeps failing with a retryable error (here 503) is
\* attempted exactly max_attempts times before the error is surfaced (with a
\* delay between consecutive attempts).
C15_RetryableErrorAttemptedMaxTimes ==
    last.error = "503" => \A k \in FailedCalls : Attempts(k) = max_attempts

\* ------------------------------------------------------------ the resolver
AfterResolve == last.op = "get_latest_version"
AfterCreateFromFeed == last.op = "create_server" /\ last.input # NoInput

\* The dot-separated components of a game version as integers, and their
\* numeric order (1.10 after 1.9).
Components(v) == [k \in 1..Len(SplitDot(v)) |-> IntOf(SplitDot(v)[k])]
NumericLess(v, w) == ListLess(Components(v), Components(w))

OffersPreferred(v, preferred) ==
    \E k \in 1..Len(v.loaders) : InSeq(Lower(v.loaders[k]), preferred)

HasPreferred(versions, preferred) ==
    \E i \in 1..Len(versions) : OffersPreferred(versions[i], preferred)

\* The list the search stops at for game version mc: that of the first
\* preferred loader with an entry under mc.
WinningList(versions, mc, preferred) ==
    LET i == CHOOSE h \in 1..Len(preferred) :
                 /\ LoaderVersions(versions, mc, preferred[h]) # <<>>
                 /\ \A g \in 1..(h - 1) :
                        LoaderVersions(versions, mc, preferred[g]) = <<>>
    IN  LoaderVersions(versions, mc, preferred[i])

\* C16: on a feed whose versions each name a game version and of which one
\* offers a preferred loader, the resolver returns a version filed under the
\* numerically greatest game version that any version with a preferred loader
\* names, and no version of the winning list was published after it.
C16_ResolvesGreatestPreferred ==
    (/\ AfterResolve
     /\ last.input.fetch.ok
     /\ HasPreferred(last.input.fetch.value, last.input.preferred)
     /\ \A i \in 1..Len(last.input.fetch.value) :
            last.input.fetch.value[i].game_versions # <<>>)
        => /\ last.resolved.ok
           /\ LET versions == last.input.fetch.value
                   preferred == last.input.preferred
                   r == last.resolved.value
               IN  /\ InSeq(r, versions)
                   /\ OffersPreferred(r, preferred)
                   /\ \E m \in 1..Len(r.game_versions) :
                          LET mc == r.game_versions[m]
                          IN  /\ \A i \in 1..Len(versions) :
                                     OffersPreferred(versions[i], preferred)
                                         => \A j \in 1..Len(versions[i].game_versions) :
                                                ~NumericLess(mc, versions[i].game_versions[j])
                              /\ InSeq(r, WinningList(versions, mc, preferred))
                              /\ \A h \in 1..Len(WinningList(versions, mc, preferred)) :
                                     WinningList(versions, mc, preferred)[h].date_published
                                         <= r.date_published

\* C17: on a feed none of whose versions offers a preferred loader, the
\* resolver raises and returns no version; create_server then returns False,
\* sends neither a create nor a delete call, and the panel is as it was.
C17_NoPreferredNoMutation ==
    (/\ AfterResolve \/ AfterCreateFromFeed
     /\ last.input.fetch.ok
     /\ ~HasPreferred(last.input.fetch.value, last.input.preferred))
        => /\ ~last.resolved.ok
           /\ ~last.result
           /\ CallsOf({"create_server", "delete_server"}) = {}
           /\ ~last.landed
           /\ panel = last.panel

\* create_server was asked for forge-only version "c" with fabric preferred,
\* on a feed that holds it and nothing for fabric.
C17_Witness ==
    /\ AfterCreateFromFeed
    /\ last.input.fetch.ok
    /\ last.input.target = "c"
    /\ last.input.preferred = <<"fabric">>
    /\ Len(last.input.fetch.value) = 2
    /\ InSeq("c", [k \in 1..2 |-> last.input.fetch.value[k].id])
    /\ ~HasPreferred(last.input.fetch.value, last.input.preferred)
    /\ Len(last.log) = 2
    /\ ~last.result

\* The version of the feed with the id create_server was asked for.
Asked ==
    last.input.fetch.value[CHOOSE k \in 1..Len(last.input.fetch.value) :
                               last.input.fetch.value[k].id = last.input.target]

AskedFound ==
    /\ last.input.target # NoTarget
    /\ last.input.fetch.ok
    /\ \E k \in 1..Len(last.input.fetch.value) :
           last.input.fetch.value[k].id = last.input.target

\* C18: create_server with a target version id creates for exactly that
\* version when one of its loader tags (case ignored) is a preferred loader,
\* and otherwise for the version the resolver picks for the preferred
\* loaders; whenever a server is made, its version offers a preferred loader
\* and the name sent is built from that version.
C18_TargetOrFallback ==
    (AfterCreateFromFeed /\ AskedFound)
        => /\ OffersPreferred(Asked, last.input.preferred)
                  => last.resolved = Returned(Asked)
           /\ ~OffersPreferred(Asked, last.input.preferred)
                  => last.resolved = GetLatestVersionInfo(last.input.fetch,
                                                          last.input.preferred)
           /\ last.landed
                  => /\ last.resolved.ok
                     /\ OffersPreferred(last.resolved.value, last.input.preferred)
                     /\ last.sent = BuildName(ConfiguredServerName,
                                              last.resolved.value.name,
                                              LoaderInfo(last.resolved.value,
                                                         last.input.preferred))

\* Forge-only version "c" was asked for with fabric preferred; the resolver
\* fell back to "b" and the server was made.
C18_Witness ==
    /\ AfterCreateFromFeed
    /\ AskedFound
    /\ last.input.target = "c"
    /\ last.input.preferred = <<"fabric">>
    /\ last.landed
    /\ last.resolved.ok
    /\ last.resolved.value.id = "b"
    /\ panel # last.panel

\* C19: check_server and get_status leave server_id, server_identifier and
\* current_server_name as they found them, whatever the list call answers
\* (an error included), send no create and no delete call, and the panel is
\* as it was.
C19_QueriesReadOnly ==
    (AfterCheck \/ AfterStatus)
        => /\ record = last.held
           /\ CallsOf({"create_server", "delete_server"}) = {}
           /\ \A k \in 1..Len(last.log) : last.log[k].call = "list_servers"
           /\ panel = last.panel

\* get_status ran with a record held and the list call raised.
C19_Witness ==
    /\ AfterStatus
    /\ held_id # NoId
    /\ held_name # NoName
    /\ Len(last.log) = 1
    /\ ~last.log[1].ok
    /\ last.error # "none"
    /\ record = last.held

\* C20: in every state a current_server_name that is set starts with "AMV:",
\* and the name in every create call create_server or update_mod sent starts
\* with "AMV:", whatever name the resolved version carries.
C20_NamesCarryPrefix ==
    /\ current_server_name # NoName => StartsWith(current_server_name, Prefix)
    /\ (AfterCreate \/ AfterUpdate)
           => /\ last.sent # NoName => StartsWith(last.sent, Prefix)
              /\ CallsOf({"create_server"}) # {} => StartsWith(last.sent, Prefix)

\* A create call was sent, the server was made and its name is now held.
C20_Witness ==
    /\ AfterCreate
    /\ CallsOf({"create_server"}) # {}
    /\ last.landed
    /\ current_server_name # NoName
    /\ current_server_name = last.sent
    /\ StartsWith(last.sent, Prefix)

\* ------------------------------------------------------------- the upload
AfterUpload == last.op = "upload_mod_file"

\* The extension of a file name.
Ext(name) == name[Len(name)]

\* C21: after every upload_mod_file that returned True, /mods of the server
\* holds no other file with the extension of the uploaded file.
C21_NoStaleArtifactAfterUpload ==
    (AfterUpload /\ created_ok /\ last.result)
        => \A f \in mods : Ext(f) = Ext(last.file) => f = last.file

\* C22: upload_mod_file returns True only if the folder was created or was
\* already there, an upload URL came back and the POST was accepted; a
\* failure of any of the three, any other error of the folder call included,
\* makes it return False.
C22_UploadTrueOnlyIfEveryStep ==
    (AfterUpload /\ last.held[1] # NoId /\ created_ok /\ last.upload.file_exists)
        => (last.result <=> /\ last.upload.folder \in {"created", "exists_400"}
                            /\ last.upload.url = "ok"
                            /\ last.upload.post = "ok")

\* C28: upload_mod_file on a manager whose server_id or server_identifier is
\* empty returns False, makes no remote call, and leaves the record and the
\* directory as they were.
C28_NoRecordNoUpload ==
    (AfterUpload /\ (last.held[1] = NoId \/ last.held[2] = NoIdentifier))
        => /\ ~last.result
           /\ last.log = <<>>
           /\ record = last.held
           /\ mods = last.mods

\* upload_mod_file was called after a create_server that failed and left no
\* record.
C28_Witness ==
    /\ AfterUpload
    /\ last.held = EmptyRecord
    /\ last.file = ModFileName
    /\ next_id = 2
    /\ ~last.result

\* ---------------------------------------------------------------- the API
AfterDeleteEndpoint == last.op = "handle_delete_server"

\* C23: the payload of the delete endpoint says "Success" only if
\* manager.deleteServer returned True; a False result reaches the caller as
\* a failure.
C23_DeleteResponseReflectsResult ==
    AfterDeleteEndpoint => (last.api = "Success" <=> last.result)

AllNumeric(versions) ==
    \A i \in 1..Len(versions) :
        \A j \in 1..Len(versions[i].game_versions) :
            ~KeyRaises(versions[i].game_versions[j])

\* C16, amended: on a feed whose game versions are all dotted numbers and of
\* which a version with a game version offers a preferred loader, the resolver
\* returns a version filed under the numerically greatest game version that
\* any version with a preferred loader names, and no version of the winning
\* list was published after it.
C16_ResolvesGreatestNumeric ==
    (/\ AfterResolve
     /\ last.input.fetch.ok
     /\ AllNumeric(last.input.fetch.value)
     /\ \E i \in 1..Len(last.input.fetch.value) :
            /\ OffersPreferred(last.input.fetch.value[i], last.input.preferred)
            /\ last.input.fetch.value[i].game_versions # <<>>)
        => /\ last.resolved.ok
           /\ LET versions == last.input.fetch.value
                   preferred == last.input.preferred
                   r == last.resolved.value
               IN  /\ InSeq(r, versions)
                   /\ OffersPreferred(r, preferred)
                   /\ \E m \in 1..Len(r.game_versions) :
                          LET mc == r.game_versions[m]
                          IN  /\ \A i \in 1..Len(versions) :
                                     OffersPreferred(versions[i], preferred)
                                         => \A j \in 1..Len(versions[i].game_versions) :
                                                ~NumericLess(mc, versions[i].game_versions[j])
                              /\ InSeq(r, WinningList(versions, mc, preferred))
                              /\ \A h \in 1..Len(WinningList(versions, mc, preferred)) :
                                     WinningList(versions, mc, preferred)[h].date_published
                                         <= r.date_published

\* Fabric versions for 1.9 and for 1.10 in the feed: the one for 1.10 came
\* back.
C16_Witness ==
    /\ AfterResolve
    /\ last.input.fetch.ok
    /\ last.input.preferred = <<"fabric">>
    /\ Len(last.input.fetch.value) = 2
    /\ last.input.fetch.value[1].id = "b"
    /\ last.input.fetch.value[2].id = "a"
    /\ last.resolved.ok
    /\ last.resolved.value.id = "b"

\* v is filed under game version mc and loader.
FiledUnder(v, mc, loader) ==
    /\ InSeq(mc, v.game_versions)
    /\ \E k \in 1..Len(v.loaders) : Lower(v.loaders[k]) = loader

\* C25: the game version decides before the loader priority.  The version
\* the resolver returns is filed under a game version mc and a preferred
\* loader such that no version with a preferred loader names a numerically
\* greater game version, and no loader earlier in the caller's list has a
\* version under mc.
C25_RuntimeVersionBeforePriority ==
    (/\ AfterResolve
     /\ last.input.fetch.ok
     /\ AllNumeric(last.input.fetch.value)
     /\ last.resolved.ok)
        => LET versions == last.input.fetch.value
               preferred == last.input.preferred
               r == last.resolved.value
           IN  \E m \in 1..Len(r.game_versions), i \in 1..Len(preferred) :
                   LET mc == r.game_versions[m]
                   IN  /\ FiledUnder(r, mc, preferred[i])
                       /\ \A k \in 1..Len(versions) :
                              \A j \in 1..Len(versions[k].game_versions) :
                                  OffersPreferred(versions[k], preferred)
                                      => ~NumericLess(mc, versions[k].game_versions[j])
                       /\ \A h \in 1..(i - 1) :
                              \A k \in 1..Len(versions) :
                                  ~FiledUnder(versions[k], mc, preferred[h])

\* Fabric is preferred over forge, the feed has fabric for 1.9 and forge for
\* 1.11: the forge version came back.
C25_Witness ==
    /\ AfterResolve
    /\ last.input.fetch.ok
    /\ last.input.preferred = <<"fabric", "forge">>
    /\ Len(last.input.fetch.value) = 2
    /\ last.input.fetch.value[1].id = "a"
    /\ last.input.fetch.value[2].id = "g"
    /\ last.resolved.ok
    /\ last.resolved.value.id = "g"

\* The place of a version in the feed.
FeedIndex(versions, v) == CHOOSE k \in 1..Len(versions) : versions[k] = v

\* C26: when several versions of the winning list share the latest publish
\* date, the resolver returns the one that comes first in the feed.
C26_TieGoesToFeedOrder ==
    (/\ AfterResolve
     /\ last.input.fetch.ok
     /\ last.resolved.ok)
        => LET versions == last.input.fetch.value
               preferred == last.input.preferred
               r == last.resolved.value
           IN  \E m \in 1..Len(r.game_versions) :
                   LET winning == WinningList(versions, r.game_versions[m],
                                              preferred)
                   IN  /\ InSeq(r, winning)
                       /\ \A h \in 1..Len(winning) :
                              /\ winning[h].date_published <= r.date_published
                              /\ winning[h].date_published = r.date_published
                                     => FeedIndex(versions, r)
                                            <= FeedIndex(versions, winning[h])

\* Two forge versions for 1.10 published at the same time, "d" before "c" in
\* the feed: "d" came back.
C26_Witness ==
    /\ AfterResolve
    /\ last.input.fetch.ok
    /\ last.input.preferred = <<"forge">>
    /\ Len(last.input.fetch.value) = 2
    /\ last.input.fetch.value[1].id = "d"
    /\ last.input.fetch.value[2].id = "c"
    /\ last.input.fetch.value[1].date_published
           = last.input.fetch.value[2].date_published
    /\ last.resolved.ok
    /\ last.resolved.value.id = "d"

\* Some game version of the feed has a component that is no number.
SomeUnparsed(versions) == ~AllNumeric(versions)

\* C27: when a game version anywhere in the feed has a component that is no
\* number, the resolver raises and returns no version, also when the versions
\* with a preferred loader all name dotted numbers.
C27_UnparsedVersionFailsResolve ==
    (/\ AfterResolve
     /\ last.input.fetch.ok
     /\ SomeUnparsed(last.input.fetch.value))
        => /\ ~last.resolved.ok
           /\ ~last.result

\* Forge is preferred, the feed holds a forge version for 1.10 and a fabric
\* version for 1.11-rc1: the resolver raised.
C27_Witness ==
    /\ AfterResolve
    /\ last.input.fetch.ok
    /\ last.input.preferred = <<"forge">>
    /\ Len(last.input.fetch.value) = 2
    /\ last.input.fetch.value[1].id = "c"
    /\ last.input.fetch.value[2].id = "e"
    /\ ~OffersPreferred(last.input.fetch.value[2], last.input.preferred)
    /\ ~last.resolved.ok

\* --------------------------------------------------------- the event loop
\* A panel call of a lifecycle operation has been entered and has not come
\* back.
CallInFlight == loop.blocked # "none" /\ last = Idle

\* C29: while a panel call of create_server, deleteServer or upload_mod_file
\* is in flight, a status query that has arrived can be scheduled and
\* answered.
C29_StatusAnsweredDuringCall ==
    (CallInFlight /\ loop.queries > 0) => ENABLED StatusEndpoint

\* --------------------------------------------------- two update triggers
BothDone == \A t \in Tasks : loop.tasks[t] = "done"

\* C30: when two concurrent update triggers have both run to their end, each
\* update_mod returning True, at most one server made by this manager is
\* live on the panel and the record names it.
C30_ConcurrentUpdatesOneServer ==
    (BothDone /\ AfterUpdate /\ last.result /\ last.created_ok)
        => /\ Cardinality(mine) <= 1
           /\ mine # {} => server_id \in mine

\* ---------------------------------------------------------------------------
\* C31. The held record is all-or-nothing.  The lifecycle methods call the
\* panel synchronously, so another task or caller observes the manager only
\* between operations: in every such state server_id, server_identifier and
\* current_server_name are all three set or all three empty.
C31_RecordAllOrNothing ==
    /\ (server_id = NoId) <=> (server_identifier = NoIdentifier)
    /\ (server_id = NoId) <=> (current_server_name = NoName)

\* A create that had already assigned current_server_name (line 234) failed
\* on the create call or on its response, and the record is empty again.
C31_Witness ==
    /\ AfterCreate
    /\ last.stage \in {"create_call", "response"}
    /\ ~last.result
    /\ record = EmptyRecord

\* ---------------------------------------------------------------------------
\* C32. When deleteServer finds the held server under its prefixed name and
\* the remote delete call for it raises, the held record is retained and
\* deleteServer returns false.  (Stated for a record written by a create that
\* returned True and a scan whose only delete call is the one for the held id.)
C32_RecordRetainedOnDeleteError ==
    (/\ AfterDelete
     /\ HeldFromCreate
     /\ StartsWith(held_name, Prefix)
     /\ IdsOf(last.calls) = {held_id}
     /\ last.failed = {held_id})
        => /\ record = last.held
           /\ ~last.result

\* ---------------------------------------------------------------------------
\* The create call of the run was reached (its environment block was built).
CreateCallSent == CallsOf({"create_server"}) # {}

\* mc is the newest game version under which a version of the feed offers a
\* preferred loader, and loader is the first preferred loader with a version
\* under mc: the place the resolver's search stops at.
SelectedUnder(versions, preferred, mc, loader) ==
    /\ \E k \in 1..Len(versions) : FiledUnder(versions[k], mc, loader)
    /\ \A k \in 1..Len(versions) :
           \A j \in 1..Len(versions[k].game_versions) :
               OffersPreferred(versions[k], preferred)
                   => ~NumericLess(mc, versions[k].game_versions[j])
    /\ \E i \in 1..Len(preferred) :
           /\ preferred[i] = loader
           /\ \A h \in 1..(i - 1) :
                  \A k \in 1..Len(versions) :
                      ~FiledUnder(versions[k], mc, preferred[h])

\* C33. When create_server resolves the latest version itself, the
\* environment block of its create call carries as MINECRAFT_VERSION the game
\* version under which the resolver selected the version and as
\* MOD_LOADER_TYPE (whatever its case) the preferred loader under which it was
\* selected.
C33_EnvironmentDescribesSelection ==
    (/\ AfterCreateFromFeed
     /\ last.input.target = NoTarget
     /\ CreateCallSent)
        => SelectedUnder(last.input.fetch.value, last.input.preferred,
                         last.environment.MINECRAFT_VERSION,
                         Lower(last.environment.MOD_LOADER_TYPE))

\* ---------------------------------------------------------------------------
\* C34. One deleteServer issues at most one remote delete call, however many
\* entries of the paged list match the held id or the held name.
C34_AtMostOneDeleteCall ==
    AfterDelete => Len(last.calls) <= 1

\* ---------------------------------------------------------------------------
\* C35. check_server and get_status agree.  On the record and the list answer
\* of a check_server call, get_status reports has_server "true" exactly when
\* check_server returned True; on those of a get_status call, check_server
\* returns True exactly when has_server is "true"; both report the server as
\* absent when no record is held; get_status echoes the held server_id and
\* current_server_name.
C35_CheckAndStatusAgree ==
    /\ AfterCheck =>
           /\ last.result <=>
                  GetStatusRun(last.held, last.listed, install_state).has_server
                      = "true"
           /\ held_id = NoId => ~last.result
    /\ AfterStatus =>
           /\ (last.status.has_server = "true") <=>
                  CheckServerRun(held_id, last.listed)
           /\ held_id = NoId => last.status.has_server = "false"
           /\ last.status.server_id = held_id
           /\ last.status.server_name = held_name

\* check_server found the held server on the second page of the list.
C35_Witness ==
    /\ AfterCheck
    /\ held_id # NoId
    /\ last.listed.ok
    /\ Len(last.listed.value) = 2
    /\ \A k \in 1..Len(last.listed.value[1]) :
           last.listed.value[1][k].id # held_id
    /\ last.result

\* ---------------------------------------------------------------------------
AfterGetLatestVersion == last.op = "ModVersionManager.get_latest_version"

\* C36. The two resolvers are equivalent: on every feed answer and every
\* preferred-loader list, get_latest_version of the mod manager returns the
\* version _getLatestVersionInfo of the panel manager returns, or both raise;
\* and the version get_latest_version(['fabric']) hands to create_server by
\* its id is, on the same feed, the version the panel manager resolves.
C36_ResolversEquivalent ==
    AfterGetLatestVersion =>
        /\ last.resolved =
               GetLatestVersionInfo(last.input.fetch, last.input.preferred)
        /\ (last.resolved.ok /\ last.input.preferred = <<"fabric">>) =>
               ResolveTargetVersion(last.input.fetch, last.resolved.value.id,
                                    <<"fabric">>)
                   = GetLatestVersionInfo(last.input.fetch, <<"fabric">>)

\* Fabric is preferred and the feed holds version d, tagged
\* "Fabric" and "forge" for 1.9 and 1.10, next to the fabric version for 1.9:
\* get_latest_version returned d.
C36_Witness ==
    /\ AfterGetLatestVersion
    /\ last.input.fetch.ok
    /\ last.input.preferred = <<"fabric">>
    /\ Len(last.input.fetch.value) = 2
    /\ last.input.fetch.value[1].id = "a"
    /\ last.input.fetch.value[2].id = "d"
    /\ last.resolved.ok
    /\ last.resolved.value.id = "d"

\* ---------------------------------------------------------------------------
\* engine.cleanup() has ended: it returned to _cleanup, or it raised.
CleanupEnded == cleanup.pc \in {"returned", "raised"}

\* C37. Whenever the engine has its manager, a cleanup() that has ended has
\* invoked deleteServer exactly once, after at most max_retries attempts to
\* shut the bot down, and has not raised: with a bot whose shutdown went
\* through, with one whose every attempt failed, and without a bot.
C37_CleanupAlwaysDeletes ==
    (CleanupEnded /\ amv.manager)
        => /\ cleanup.deletes = 1
           /\ cleanup.attempts <= max_retries
           /\ cleanup.raised = "none"

\* ---------------------------------------------------------------------------
\* C39. The shutdown is safe against re-entry: under every interleaving of
\* the signals' _cleanup tasks and main()'s own _cleanup calls,
\* engine.cleanup() is invoked at most once; a _cleanup call that finds
\* another in progress changes nothing; and once engine.cleanup() has returned
\* to _cleanup, the global engine is empty and _is_shutting_down is false.
C39_ShutdownReentrancySafe ==
    /\ cleanup.invocations <= 1
    /\ \A x \in TaskIds : tasks[x].saw_busy => ~tasks[x].changed
    /\ cleanup.pc = "returned" =>
           /\ ~globals.engine
           /\ ~globals.is_shutting_down

\* A _cleanup call ran engine.cleanup() to its end while a second signal's
\* _cleanup arrived in the middle of it and returned at once.
C39_Witness ==
    /\ cleanup.pc = "returned"
    /\ cleanup.invocations = 1
    /\ \E t \in SignalTasks :
           /\ t # cleanup.owner
           /\ tasks[t].pc = "done"
           /\ tasks[t].saw_busy

\* ---------------------------------------------------------------------------
\* C38. The polling loop of the notifier ends within max_retries polls of
\* the status endpoint, whatever the endpoint answers: no run of a loop
\* polls more often than its max_retries.
C38_PollingBounded ==
    notifier.loop \in PollingLoops => notifier.polls <= MaxRetries(notifier.loop)

====
